---- MODULE Spec2Model ----
(***************************************************************************)
(* Building sweep simulation: rooms with count-based and legacy sweep      *)
(* state (room.py), responders with independent clocks (responder.py),     *)
(* the facility graph (building.py), the emergency multipliers             *)
(* (emergency.py) and the phased scheduler (simulation.py).                *)
(*                                                                         *)
(* Python values of mixed type (None, int team ids, str team ids) are      *)
(* tagged records, so that 1 and "1" are different values as in Python.    *)
(* Times are integer milliseconds, multipliers are integer thousandths;    *)
(* every multiplication by a multiplier rounds down to a millisecond.      *)
(***************************************************************************)
EXTENDS Integers, Sequences, FiniteSets, TLC

(***************************************************************************)
(* Bounds of the model.                                                    *)
(***************************************************************************)
\* responder lists have 0..MaxResponders responders
MaxResponders == 3
\* iteration caps tried are 0..MaxSmallCap, next to an ample cap
MaxSmallCap == 1
\* direct calls on a room (second specification) per behaviour
MaxCalls == 3

(***************************************************************************)
(* Program constants.                                                      *)
(***************************************************************************)
\* rooms_to_check[:5]
ChecksPerIteration == 5
\* Responder(movement_speed=3.0), in mm/s
DefaultMovementSpeed == 3000
\* SWEEP_TIME_PER_SQM = 1.0, in ms per square metre
SweepTimePerSqm == 1000

(***************************************************************************)
(* Python values.                                                          *)
(***************************************************************************)
None == [t |-> "none", n |-> 0, s |-> ""]
IntV(i) == [t |-> "int", n |-> i, s |-> ""]
StrV(x) == [t |-> "str", n |-> 0, s |-> x]

\* truthiness of None / int / str
Truthy(v) ==
    CASE v.t = "none" -> FALSE
      [] v.t = "int" -> v.n # 0
      [] OTHER -> v.s # ""

DigitStr(d) ==
    CASE d = 0 -> "0" [] d = 1 -> "1" [] d = 2 -> "2" [] d = 3 -> "3"
      [] d = 4 -> "4" [] d = 5 -> "5" [] d = 6 -> "6" [] d = 7 -> "7"
      [] d = 8 -> "8" [] OTHER -> "9"

RECURSIVE NatStr(_)
NatStr(i) == IF i < 10 THEN DigitStr(i) ELSE NatStr(i \div 10) \o DigitStr(i % 10)

\* str(x) for an int or a str
PyStr(v) == IF v.t = "int" THEN StrV(NatStr(v.n)) ELSE v

Min2(a, b) == IF a <= b THEN a ELSE b
Max2(a, b) == IF a >= b THEN a ELSE b

\* x times a multiplier given in thousandths
Mul(x, pm) == (x \div 1000) * pm + ((x % 1000) * pm) \div 1000

\* x divided by a divisor given in thousandths
Div(x, pm) == (x \div pm) * 1000 + ((x % pm) * 1000) \div pm

(***************************************************************************)
(* emergency.py                                                            *)
(***************************************************************************)
\* EmergencyContext.__init__: severity and smoke_density in thousandths
EmergencyContext(type, severity, has_smoke, smoke_density) ==
    LET sev == Max2(100, Min2(3000, severity))
        den == Max2(0, Min2(1000, smoke_density))
        auto == ~has_smoke /\ type \in {"FIRE", "SMOKE_NO_FIRE"}
    IN [emergency_type |-> type,
        severity |-> sev,
        has_smoke |-> (has_smoke \/ auto),
        smoke_density |-> IF auto THEN (IF type = "FIRE" THEN 700 ELSE 500) ELSE den]

is_noticeable(e) ==
    e.emergency_type \in {"FIRE", "STRUCTURAL_COLLAPSE", "FLOOD", "SMOKE_NO_FIRE",
                          "EVACUATION_DRILL"}

get_occupant_response_multiplier(e) ==
    IF e.emergency_type = "EVACUATION_DRILL" THEN 800
    ELSE IF is_noticeable(e) THEN e.severity
    ELSE LET base_delay == CASE e.emergency_type = "CO_LEAK" -> 2500
                             [] e.emergency_type = "GAS_LEAK" -> 2000
                             [] e.emergency_type = "CHEMICAL_LEAK" -> 2200
                             [] OTHER -> 1500
         IN Mul(base_delay, e.severity)

get_visibility_multiplier(e) ==
    IF ~e.has_smoke \/ e.smoke_density = 0 THEN 1000
    ELSE Mul(1000 + e.smoke_density * 2, e.severity)

get_movement_speed_multiplier(e) ==
    LET base == CASE e.emergency_type = "FIRE" -> 700
                  [] e.emergency_type = "STRUCTURAL_COLLAPSE" -> 600
                  [] e.emergency_type = "FLOOD" -> 500
                  [] e.emergency_type = "SMOKE_NO_FIRE" -> 800
                  [] e.emergency_type = "GAS_LEAK" -> 900
                  [] e.emergency_type = "CO_LEAK" -> 950
                  [] e.emergency_type = "CHEMICAL_LEAK" -> 850
                  [] e.emergency_type = "EVACUATION_DRILL" -> 1000
                  [] OTHER -> 900
        smoked == IF e.has_smoke THEN Mul(base, 1000 - Mul(e.smoke_density, 300)) ELSE base
        severe == IF e.severity > 1000
                  THEN Mul(smoked, 1000 - Mul(e.severity - 1000, 150))
                  ELSE smoked
    IN Max2(300, severe)

\* mutant: the severity does not enter
get_sweep_difficulty_multiplier_flat(e) ==
    IF e.emergency_type = "FIRE" THEN 1500 ELSE 1200

get_sweep_difficulty_multiplier(e) ==
    LET base == CASE e.emergency_type = "FIRE" -> 1500
                  [] e.emergency_type = "STRUCTURAL_COLLAPSE" -> 1800
                  [] e.emergency_type = "FLOOD" -> 1400
                  [] e.emergency_type = "SMOKE_NO_FIRE" -> 1300
                  [] e.emergency_type = "GAS_LEAK" -> 1600
                  [] e.emergency_type = "CO_LEAK" -> 1700
                  [] e.emergency_type = "CHEMICAL_LEAK" -> 1800
                  [] e.emergency_type = "EVACUATION_DRILL" -> 900
                  [] OTHER -> 1200
    IN Mul(base, e.severity)

\* in thousandths of a score point
get_priority_bonus(e) ==
    LET base == CASE e.emergency_type = "FIRE" -> 200
                  [] e.emergency_type = "STRUCTURAL_COLLAPSE" -> 250
                  [] e.emergency_type = "CO_LEAK" -> 180
                  [] e.emergency_type = "GAS_LEAK" -> 170
                  [] e.emergency_type = "CHEMICAL_LEAK" -> 190
                  [] e.emergency_type = "FLOOD" -> 150
                  [] e.emergency_type = "SMOKE_NO_FIRE" -> 140
                  [] e.emergency_type = "EVACUATION_DRILL" -> 50
                  [] OTHER -> 100
    IN base * e.severity

\* Building.__init__: emergency or EmergencyContext(EVACUATION_DRILL, severity=0.5)
DefaultEmergency == EmergencyContext("EVACUATION_DRILL", 500, FALSE, 0)

(***************************************************************************)
(* room.py                                                                 *)
(***************************************************************************)
\* ROOM_PRIORITY_LEVELS.get(room_type, 3)
ROOM_PRIORITY_LEVELS(room_type) ==
    CASE room_type \in {"DAYCARE", "MEDICAL", "ELDERLY_CARE"} -> 5
      [] room_type \in {"CLASSROOM", "DORMITORY", "PATIENT_ROOM"} -> 4
      [] room_type \in {"OFFICE", "CONFERENCE", "LABORATORY"} -> 3
      [] room_type \in {"RESTROOM", "BREAK_ROOM", "HALLWAY"} -> 2
      [] room_type \in {"STORAGE", "MECHANICAL", "JANITOR_CLOSET", "EXIT"} -> 1
      [] OTHER -> 3

\* priority_override if priority_override is not None else the type's level
EffectivePriority(room_type, priority_override) ==
    IF priority_override # None THEN priority_override.n
    ELSE ROOM_PRIORITY_LEVELS(room_type)

\* mutant: the override is not looked at
get_required_sweeps_of_type(room_type, priority_override) ==
    IF ROOM_PRIORITY_LEVELS(room_type) >= 5 THEN 3
    ELSE IF ROOM_PRIORITY_LEVELS(room_type) >= 4 THEN 2 ELSE 1

get_required_sweeps(room_type, priority_override) ==
    LET priority == EffectivePriority(room_type, priority_override)
    IN IF priority >= 5 THEN 3 ELSE IF priority >= 4 THEN 2 ELSE 1

\* constructor arguments of a room, with the defaults of Room.__init__
RoomArgs(room_id, order, area, room_type, occupant_type, expected_occupants, visible_fraction) ==
    [room_id |-> room_id, order |-> order, area |-> area, room_type |-> room_type,
     occupant_type |-> occupant_type, has_smoke |-> FALSE, is_visible |-> TRUE,
     visible_fraction |-> visible_fraction, is_swept |-> FALSE, is_checked |-> FALSE,
     expected_occupants |-> expected_occupants, priority_override |-> None]

\* Room.__init__ ; order is the rank of room_id in Python's string order
Room(a) ==
    [room_id |-> a.room_id,
     order |-> a.order,
     area |-> a.area,
     room_type |-> a.room_type,
     occupant_type |-> a.occupant_type,
     has_smoke |-> a.has_smoke,
     is_visible |-> IF a.has_smoke THEN FALSE ELSE a.is_visible,
     visible_fraction |-> IF a.has_smoke /\ a.visible_fraction = 1000
                          THEN 300 ELSE a.visible_fraction,
     is_swept |-> a.is_swept,
     is_checked |-> a.is_checked,
     expected_occupants |-> a.expected_occupants,
     priority_override |-> a.priority_override,
     priority_level |-> EffectivePriority(a.room_type, a.priority_override),
     required_sweeps_count |-> get_required_sweeps(a.room_type, a.priority_override),
     actual_sweeps_count |-> 0,
     sweep_history |-> << >>,
     swept_by_team |-> None,
     checked_by_team |-> None,
     needs_resweep |-> FALSE,
     sweep_time |-> None]

\* no emergency context given (emergency_context=None)
NoEmergency == [emergency_type |-> "", severity |-> 0, has_smoke |-> FALSE,
                smoke_density |-> 0]

\* r = max(0.0, min(1.0, self.visible_fraction))
VisibleFraction(room) == Max2(0, Min2(1000, room.visible_fraction))

\* the clutter class C of a visible fraction r
ClutterClass(r) ==
    IF r > 800 THEN 1 ELSE IF r > 600 THEN 2 ELSE IF r > 400 THEN 3
    ELSE IF r > 200 THEN 4 ELSE 5

\* type_multipliers.get(self.room_type, 1.0)
RoomTypeMultiplier(room_type) ==
    CASE room_type = "OFFICE" -> 1200
      [] room_type = "CONFERENCE" -> 1000
      [] room_type = "STORAGE" -> 1500
      [] room_type = "RESTROOM" -> 800
      [] room_type = "HALLWAY" -> 500
      [] room_type = "EXIT" -> 100
      [] OTHER -> 1000

\* occupant_multipliers.get(self.occupant_type, 1.0)
OccupantMultiplier(occupant_type) ==
    CASE occupant_type = "NONE" -> 800
      [] occupant_type = "LOW_MOBILITY" -> 1500
      [] occupant_type = "NORMAL" -> 1000
      [] occupant_type = "HIGH_DENSITY" -> 1300
      [] OTHER -> 1000

\* the occupant response factor, applied when occupants are expected
OccupantResponse(room, emergency_context, t) ==
    IF room.expected_occupants > 0
    THEN Mul(t, get_occupant_response_multiplier(emergency_context))
    ELSE t

\* the emergency-specific multipliers: visibility, occupant response, difficulty
EmergencyFactors(room, emergency_context, t) ==
    IF emergency_context # NoEmergency
    THEN Mul(OccupantResponse(room, emergency_context,
                              Mul(t, get_visibility_multiplier(emergency_context))),
             get_sweep_difficulty_multiplier(emergency_context))
    ELSE t

\* the penalty min(3.0, 1.0 + (0.8 - r)) of a room that is not visible
VisibilityPenalty(room, r, t) ==
    IF ~room.is_visible THEN Mul(t, Min2(3000, 1000 + (800 - r))) ELSE t

\* a visible room without occupants is swept 5 times faster
QuickSweep(room, t) ==
    IF room.visible_fraction >= 900 /\ room.expected_occupants = 0 THEN t \div 5 ELSE t

\* Room.calculate_sweep_duration, in ms; expertise in thousandths
calculate_sweep_duration(room, responder_expertise, emergency_context) ==
    Div(QuickSweep(room,
            VisibilityPenalty(room, VisibleFraction(room),
                EmergencyFactors(room, emergency_context,
                    Mul(Mul(SweepTimePerSqm * room.area
                                * ClutterClass(VisibleFraction(room)),
                            RoomTypeMultiplier(room.room_type)),
                        OccupantMultiplier(room.occupant_type))))),
        responder_expertise)

\* mutant: the count is not refreshed after the append
mark_swept_stale_count(room, time, team_id) ==
    LET hist == IF Truthy(team_id) THEN Append(room.sweep_history, <<time, team_id>>)
                ELSE room.sweep_history
    IN [room EXCEPT !.sweep_history = hist,
                    !.is_swept = TRUE,
                    !.sweep_time = IntV(time),
                    !.swept_by_team = IF Truthy(team_id) THEN team_id ELSE @,
                    !.checked_by_team = None,
                    !.needs_resweep = FALSE]

\* mutant: swept_by_team is overwritten even when no team is given
mark_swept_team_overwritten(room, time, team_id) ==
    LET hist == IF Truthy(team_id) THEN Append(room.sweep_history, <<time, team_id>>)
                ELSE room.sweep_history
    IN [room EXCEPT !.sweep_history = hist,
                    !.actual_sweeps_count = IF Truthy(team_id) THEN Len(hist) ELSE @,
                    !.is_swept = TRUE,
                    !.sweep_time = IntV(time),
                    !.swept_by_team = team_id,
                    !.checked_by_team = None,
                    !.needs_resweep = FALSE]

\* Room.mark_swept
mark_swept(room, time, team_id) ==
    LET hist == IF Truthy(team_id) THEN Append(room.sweep_history, <<time, team_id>>)
                ELSE room.sweep_history
    IN [room EXCEPT !.sweep_history = hist,
                    !.actual_sweeps_count = IF Truthy(team_id) THEN Len(hist) ELSE @,
                    !.is_swept = TRUE,
                    !.sweep_time = IntV(time),
                    !.swept_by_team = IF Truthy(team_id) THEN team_id ELSE @,
                    !.checked_by_team = None,
                    !.needs_resweep = FALSE]

\* mutant: a same-team check is accepted
mark_checked_no_resweep(room, time, team_id) ==
    [room EXCEPT !.checked_by_team = IF Truthy(team_id) THEN team_id ELSE @,
                 !.needs_resweep = FALSE]

\* mutant: a check by the sweeping team also takes the last sweep off the
\* history and the count
mark_checked_drops_sweep(room, time, team_id) ==
    LET checked == IF Truthy(team_id) THEN team_id ELSE room.checked_by_team
    IN IF Truthy(room.swept_by_team) /\ Truthy(checked) /\ room.swept_by_team = checked
       THEN [room EXCEPT !.checked_by_team = checked,
                         !.needs_resweep = TRUE,
                         !.is_swept = FALSE,
                         !.sweep_time = None,
                         !.swept_by_team = None,
                         !.sweep_history = SubSeq(@, 1, Len(@) - 1),
                         !.actual_sweeps_count = Max2(0, @ - 1)]
       ELSE [room EXCEPT !.checked_by_team = checked,
                         !.needs_resweep = FALSE]

\* mutant: the two teams are compared by their printed ids, 1 and "1" are the
\* same team
mark_checked_printed_ids(room, time, team_id) ==
    LET checked == IF Truthy(team_id) THEN team_id ELSE room.checked_by_team
    IN IF Truthy(room.swept_by_team) /\ Truthy(checked)
             /\ PyStr(room.swept_by_team) = PyStr(checked)
       THEN [room EXCEPT !.checked_by_team = checked,
                         !.needs_resweep = TRUE,
                         !.is_swept = FALSE,
                         !.sweep_time = None,
                         !.swept_by_team = None]
       ELSE [room EXCEPT !.checked_by_team = checked,
                         !.needs_resweep = FALSE]

\* Room.mark_checked
mark_checked(room, time, team_id) ==
    LET checked == IF Truthy(team_id) THEN team_id ELSE room.checked_by_team
    IN IF Truthy(room.swept_by_team) /\ Truthy(checked) /\ room.swept_by_team = checked
       THEN [room EXCEPT !.checked_by_team = checked,
                         !.needs_resweep = TRUE,
                         !.is_swept = FALSE,
                         !.sweep_time = None,
                         !.swept_by_team = None]
       ELSE [room EXCEPT !.checked_by_team = checked,
                         !.needs_resweep = FALSE]

\* mutant: no room ever counts as fully swept
room_is_fully_swept_never(room) == FALSE

\* Room.is_fully_swept
room_is_fully_swept(room) == room.actual_sweeps_count >= room.required_sweeps_count

\* Room.get_sweeping_teams
get_sweeping_teams(room) ==
    {room.sweep_history[i][2] : i \in 1..Len(room.sweep_history)}

\* mutant: no team is ever found in the history
was_swept_by_team_never(room, team_id) == FALSE

\* Room.was_swept_by_team
was_swept_by_team(room, team_id) ==
    \E i \in 1..Len(room.sweep_history) : room.sweep_history[i][2] = team_id

(***************************************************************************)
(* building.py.  A building is the result of a sequence of add_room and    *)
(* add_path calls: order is the insertion order of the rooms dict, edges   *)
(* the undirected weighted graph (distances in mm).                        *)
(***************************************************************************)
\* float('inf')
Inf == -1

\* create_minimal_building() of test_team_redundancy.py
LinearBuilding ==
    [name |-> "Test Redundancy Building",
     order |-> <<"Exit1", "Hallway", "Room1">>,
     args |-> [Exit1 |-> RoomArgs("Exit1", 1, 5, "EXIT", "NONE", 0, 1000),
               Hallway |-> RoomArgs("Hallway", 2, 15, "HALLWAY", "NONE", 0, 1000),
               Room1 |-> RoomArgs("Room1", 3, 25, "OFFICE", "NONE", 2, 1000)],
     edges |-> {<<"Exit1", "Hallway", 5000>>, <<"Hallway", "Room1", 8000>>}]

\* the critical and high priority corner of create_priority_test_building()
PriorityBuilding ==
    [name |-> "Priority Test Building",
     order |-> <<"daycare", "classroom", "entrance">>,
     args |-> [daycare |-> RoomArgs("daycare", 2, 60, "DAYCARE", "HIGH_DENSITY", 15, 900),
               classroom |-> RoomArgs("classroom", 1, 50, "CLASSROOM", "HIGH_DENSITY", 25, 900),
               entrance |-> RoomArgs("entrance", 3, 10, "EXIT", "NONE", 0, 1000)],
     edges |-> {<<"entrance", "daycare", 10000>>, <<"entrance", "classroom", 10000>>,
                <<"daycare", "classroom", 5000>>}]

\* a building one of whose rooms has no path to the others
AnnexBuilding ==
    [name |-> "Annex",
     order |-> <<"Gate", "Store", "Lab">>,
     args |-> [Gate |-> RoomArgs("Gate", 1, 5, "EXIT", "NONE", 0, 1000),
               Store |-> RoomArgs("Store", 3, 20, "STORAGE", "NONE", 0, 600),
               Lab |-> RoomArgs("Lab", 2, 30, "LABORATORY", "NORMAL", 3, 850)],
     edges |-> {<<"Gate", "Store", 6000>>}]

Buildings == {LinearBuilding, PriorityBuilding, AnnexBuilding}

\* a site whose walkway is more than a kilometre from the lodge
CampusBuilding ==
    [name |-> "Campus",
     order |-> <<"Lodge", "Shed", "Walkway">>,
     args |-> [Lodge |-> RoomArgs("Lodge", 1, 5, "EXIT", "NONE", 0, 1000),
               Shed |-> RoomArgs("Shed", 2, 20, "STORAGE", "NONE", 0, 600),
               Walkway |-> RoomArgs("Walkway", 3, 15, "HALLWAY", "NONE", 0, 1000)],
     edges |-> {<<"Lodge", "Shed", 2000>>, <<"Lodge", "Walkway", 1002000>>}]

AllBuildings == Buildings \cup {CampusBuilding}

\* the medium and low priority part of create_priority_test_building()
WingBuilding ==
    [name |-> "Priority Test Wing",
     order |-> <<"office1", "conference", "restroom", "hallway", "storage1", "mechanical",
                 "entrance">>,
     args |-> [office1 |-> RoomArgs("office1", 5, 30, "OFFICE", "NORMAL", 4, 850),
               conference |-> RoomArgs("conference", 1, 35, "CONFERENCE", "NORMAL", 10, 950),
               restroom |-> RoomArgs("restroom", 6, 15, "RESTROOM", "NONE", 0, 900),
               hallway |-> RoomArgs("hallway", 3, 25, "HALLWAY", "NONE", 0, 1000),
               storage1 |-> RoomArgs("storage1", 7, 20, "STORAGE", "NONE", 0, 600),
               mechanical |-> RoomArgs("mechanical", 4, 18, "MECHANICAL", "NONE", 0, 500),
               entrance |-> RoomArgs("entrance", 2, 10, "EXIT", "NONE", 0, 1000)],
     edges |-> {<<"entrance", "office1", 10000>>, <<"entrance", "conference", 10000>>,
                <<"entrance", "restroom", 10000>>, <<"entrance", "hallway", 10000>>,
                <<"entrance", "storage1", 10000>>, <<"entrance", "mechanical", 10000>>,
                <<"hallway", "storage1", 5000>>, <<"storage1", "mechanical", 4000>>}]

\* every building a scenario of the model is run in
ModelledBuildings == AllBuildings \cup {WingBuilding}

RoomIds(b) == {b.order[i] : i \in 1..Len(b.order)}

\* the rooms of a freshly constructed building
FreshRooms(b) == [id \in RoomIds(b) |-> Room(b.args[id])]

\* edges of the undirected graph that end in room x, as <<other end, distance>>
Incident(b, x) ==
    {<<e[1], e[3]>> : e \in {f \in b.edges : f[2] = x}}
        \cup {<<e[2], e[3]>> : e \in {f \in b.edges : f[1] = x}}

AddD(x, w) == IF x < 0 THEN Inf ELSE x + w
MinD(x, y) == IF x < 0 THEN y ELSE IF y < 0 THEN x ELSE Min2(x, y)

RECURSIVE MinOver(_)
MinOver(S) ==
    IF S = {} THEN Inf
    ELSE LET x == CHOOSE y \in S : TRUE IN MinD(x, MinOver(S \ {x}))

\* length of the shortest walk from a to x with at most k edges
RECURSIVE DistK(_, _, _, _)
DistK(b, a, x, k) ==
    IF k = 0 THEN (IF a = x THEN 0 ELSE Inf)
    ELSE MinD(DistK(b, a, x, k - 1),
              MinOver({AddD(DistK(b, a, n[1], k - 1), n[2]) : n \in Incident(b, x)}))

\* all-pairs shortest distances of the buildings, computed once
DistTable ==
    [name \in {b.name : b \in ModelledBuildings} |->
        LET b == CHOOSE c \in ModelledBuildings : c.name = name
        IN [a \in RoomIds(b) |-> [x \in RoomIds(b) |-> DistK(b, a, x, Len(b.order) - 1)]]]

\* nx.shortest_path_length(graph, a, x, weight='distance')
Dist(b, a, x) == DistTable[b.name][a][x]

\* nx.shortest_path(graph, a, x, weight='distance')
RECURSIVE Path(_, _, _)
Path(b, a, x) ==
    IF a = x THEN <<a>>
    ELSE LET n == CHOOSE m \in Incident(b, x) :
                      Dist(b, a, m[1]) >= 0 /\ Dist(b, a, m[1]) + m[2] = Dist(b, a, x)
         IN Append(Path(b, a, n[1]), x)

\* mutant: only a room itself and its direct neighbours are reached
get_shortest_path_adjacent_only(b, start_id, end_id) ==
    IF start_id = end_id THEN [path |-> <<start_id>>, distance |-> 0]
    ELSE IF \E m \in Incident(b, end_id) : m[1] = start_id
    THEN [path |-> <<start_id, end_id>>,
          distance |-> (CHOOSE m \in Incident(b, end_id) : m[1] = start_id)[2]]
    ELSE [path |-> << >>, distance |-> Inf]

\* mutant: a room has no path to itself
get_shortest_path_no_self(b, start_id, end_id) ==
    IF Dist(b, start_id, end_id) < 0 \/ start_id = end_id
    THEN [path |-> << >>, distance |-> Inf]
    ELSE [path |-> Path(b, start_id, end_id), distance |-> Dist(b, start_id, end_id)]

\* Building.get_shortest_path
get_shortest_path(b, start_id, end_id) ==
    IF Dist(b, start_id, end_id) < 0
    THEN [path |-> << >>, distance |-> Inf]
    ELSE [path |-> Path(b, start_id, end_id), distance |-> Dist(b, start_id, end_id)]

\* the rooms in insertion order that satisfy P
RECURSIVE FilterOrder(_, _)
FilterOrder(order, S) ==
    IF order = << >> THEN << >>
    ELSE IF Head(order) \in S THEN <<Head(order)>> \o FilterOrder(Tail(order), S)
    ELSE FilterOrder(Tail(order), S)

\* Building.get_unswept_rooms
get_unswept_rooms(b, rs) ==
    FilterOrder(b.order, {id \in RoomIds(b) : ~room_is_fully_swept(rs[id])})

\* Building.has_unswept_rooms
has_unswept_rooms(b, rs) == \E id \in RoomIds(b) : ~room_is_fully_swept(rs[id])

\* Building.is_fully_swept
building_is_fully_swept(b, rs) == \A id \in RoomIds(b) : room_is_fully_swept(rs[id])

\* mutant: the history is kept across a reset
reset_keeps_history(b, rs) ==
    [id \in RoomIds(b) |->
        [rs[id] EXCEPT !.is_swept = FALSE, !.is_checked = FALSE, !.sweep_time = None,
                       !.swept_by_team = None, !.checked_by_team = None,
                       !.needs_resweep = FALSE, !.actual_sweeps_count = 0]]

\* mutant: the sweep count is kept across a reset
reset_keeps_count(b, rs) ==
    [id \in RoomIds(b) |->
        [rs[id] EXCEPT !.is_swept = FALSE, !.is_checked = FALSE, !.sweep_time = None,
                       !.swept_by_team = None, !.checked_by_team = None,
                       !.needs_resweep = FALSE, !.sweep_history = << >>]]

\* Building.reset_sweep_status
reset_sweep_status(b, rs) ==
    [id \in RoomIds(b) |->
        [rs[id] EXCEPT !.is_swept = FALSE, !.is_checked = FALSE, !.sweep_time = None,
                       !.swept_by_team = None, !.checked_by_team = None,
                       !.needs_resweep = FALSE, !.actual_sweeps_count = 0,
                       !.sweep_history = << >>]]

\* the stats dict for a number of rooms counted as swept (completion in
\* thousandths)
BuildingStats(total_rooms, swept_rooms) ==
    [total_rooms |-> total_rooms, swept_rooms |-> swept_rooms,
     unswept_rooms |-> total_rooms - swept_rooms,
     completion |-> IF total_rooms > 0 THEN (swept_rooms * 1000) \div total_rooms ELSE 0]

\* mutant: the rooms counted as swept are the fully swept ones
get_building_stats_by_count(b, rs) ==
    BuildingStats(Len(b.order), Cardinality({id \in RoomIds(b) : room_is_fully_swept(rs[id])}))

\* Building.get_building_stats
get_building_stats(b, rs) ==
    BuildingStats(Len(b.order), Cardinality({id \in RoomIds(b) : rs[id].is_swept}))

(***************************************************************************)
(* responder.py                                                            *)
(***************************************************************************)
SweepStrategy == {"NEAREST_FIRST", "SYSTEMATIC", "PRIORITY_BASED", "SPLIT_COVERAGE"}

\* ExpertiseLevel.INTERMEDIATE.value, in thousandths
Intermediate == 1000

\* Responder.__init__ with the default speed and no emergency context
Responder(responder_id, name, strategy, team_id) ==
    [responder_id |-> responder_id,
     name |-> name,
     strategy |-> strategy,
     expertise |-> Intermediate,
     base_movement_speed |-> DefaultMovementSpeed,
     movement_speed |-> DefaultMovementSpeed,
     team_id |-> team_id,
     emergency_context |-> NoEmergency,
     current_room_id |-> None,
     rooms_swept |-> << >>,
     rooms_checked |-> << >>,
     total_distance_traveled |-> 0,
     total_sweep_time |-> 0,
     current_time |-> 0,
     is_available |-> TRUE]

\* Responder.set_emergency_context
set_emergency_context(r, e) ==
    [r EXCEPT !.emergency_context = e,
              !.movement_speed = IF e # NoEmergency
                                 THEN Mul(r.base_movement_speed,
                                          get_movement_speed_multiplier(e))
                                 ELSE r.base_movement_speed]

\* Responder.calculate_travel_time: mm at mm/s, in ms
calculate_travel_time(r, distance) == Div(distance, r.movement_speed)

\* Responder.sweep_room, lines 132-136, sweep_duration being d
SweepFor(r, room, d) ==
    [responder |-> [r EXCEPT !.total_sweep_time = @ + d,
                             !.rooms_swept = Append(@, room.room_id),
                             !.current_time = @ + d],
     room |-> mark_swept(room, r.current_time + d, r.team_id),
     duration |-> d]

\* Responder.sweep_room
sweep_room(r, room) == SweepFor(r, room, calculate_sweep_duration(room, r.expertise, r.emergency_context))

\* Responder.check_room, line 156: the room as checked and its needs_resweep
Checked(r, d, checked) ==
    [responder |-> [r EXCEPT !.rooms_checked = Append(@, checked.room_id),
                             !.current_time = @ + d],
     room |-> checked,
     needs_resweep |-> checked.needs_resweep]

\* Responder.check_room, lines 152-155, check_duration being d
CheckFor(r, room, d) == Checked(r, d, mark_checked(room, r.current_time + d, r.team_id))

\* Responder.check_room: a check takes 10% of a sweep
check_room(r, room) == CheckFor(r, room, Mul(calculate_sweep_duration(room, r.expertise, r.emergency_context), 100))

\* Responder.get_priority_score: base in tenths of a point, plus num/den
\* tenths for the 50/distance term (distance in dm; no term at distance 0,
\* and 50/inf = 0)
get_priority_score(r, room, distance) ==
    [base |-> (IF r.emergency_context # NoEmergency
               THEN get_priority_bonus(r.emergency_context) \div 100 ELSE 0)
              + (IF room.has_smoke THEN 1500 ELSE 0)
              + (IF ~room.is_visible THEN 1000 ELSE 0)
              + room.expected_occupants * 100,
     num |-> IF distance > 0 THEN 5000 ELSE 0,
     den |-> IF distance > 0 THEN distance \div 100 ELSE 1]

\* s1 > s2 for two priority scores
ScoreGreater(s1, s2) ==
    (s1.base - s2.base) * s1.den * s2.den + s1.num * s2.den - s2.num * s1.den > 0

\* Responder.reset
responder_reset(r) ==
    [r EXCEPT !.current_room_id = None, !.rooms_swept = << >>, !.rooms_checked = << >>,
              !.total_distance_traveled = 0, !.total_sweep_time = 0,
              !.current_time = 0, !.is_available = TRUE]

(***************************************************************************)
(* simulation.py: pure parts.  Responders are addressed by their index in  *)
(* the responder list; 0 stands for "no responder" (None).                 *)
(***************************************************************************)
\* SweepSimulation._group_responders_by_team: the dict in insertion order, as
\* a sequence of <<team_id, indices of its responders>>
RECURSIVE GroupFrom(_, _, _)
GroupFrom(rs, i, teams) ==
    IF i > Len(rs) THEN teams
    ELSE IF ~Truthy(rs[i].team_id) THEN GroupFrom(rs, i + 1, teams)
    ELSE IF \E k \in 1..Len(teams) : teams[k][1] = rs[i].team_id
    THEN GroupFrom(rs, i + 1,
                   [k \in 1..Len(teams) |->
                       IF teams[k][1] = rs[i].team_id
                       THEN <<teams[k][1], Append(teams[k][2], i)>> ELSE teams[k]])
    ELSE GroupFrom(rs, i + 1, Append(teams, <<rs[i].team_id, <<i>>>>))

group_responders_by_team(rs) == GroupFrom(rs, 1, << >>)

\* first index in members whose responder is available, 0 if none
RECURSIVE FirstAvailable(_, _)
FirstAvailable(rs, members) ==
    IF members = << >> THEN 0
    ELSE IF rs[Head(members)].is_available THEN Head(members)
    ELSE FirstAvailable(rs, Tail(members))

\* mutant: the first responder of the list checks, in a team or not
get_checker_first_of_list(teams, rs, sweeper_team_id) == IF rs = << >> THEN 0 ELSE 1

\* SweepSimulation._get_checker_from_different_team: team_id != sweeper_team_id
\* compares the values as Python does (an int never equals a str)
RECURSIVE get_checker_from_different_team(_, _, _)
get_checker_from_different_team(teams, rs, sweeper_team_id) ==
    IF teams = << >> THEN 0
    ELSE IF Head(teams)[1] # sweeper_team_id /\ FirstAvailable(rs, Head(teams)[2]) # 0
    THEN FirstAvailable(rs, Head(teams)[2])
    ELSE get_checker_from_different_team(Tail(teams), rs, sweeper_team_id)

\* str(responder.team_id) if responder.team_id else responder.responder_id
team_id_str(r) == IF Truthy(r.team_id) THEN PyStr(r.team_id) ELSE StrV(r.responder_id)

\* priority_level * 1000 - distance, in thousandths; -inf when there is no path
NearestScore(room, distance) ==
    IF distance < 0 THEN [minus_inf |-> TRUE, v |-> 0]
    ELSE [minus_inf |-> FALSE, v |-> room.priority_level * 1000000 - distance]

\* (score1, id1) > (score2, id2) as Python compares the candidate tuples;
\* a score is finite or -inf
CandidateGreater(s1, o1, s2, o2) ==
    IF s1 = s2 THEN o1 > o2
    ELSE IF s1.minus_inf THEN FALSE
    ELSE IF s2.minus_inf THEN TRUE
    ELSE s1.v > s2.v

\* NEAREST_FIRST: candidates.sort(reverse=True)[0]
NearestFirstChoice(b, rs, cur, avail) ==
    LET S == {avail[i] : i \in 1..Len(avail)}
        sc(id) == NearestScore(rs[id], get_shortest_path(b, cur, id).distance)
    IN CHOOSE id \in S :
           \A other \in S \ {id} :
               CandidateGreater(sc(id), rs[id].order, sc(other), rs[other].order)

\* PRIORITY_BASED: the first room with the strictly greatest priority score
RECURSIVE PriorityScan(_, _, _, _, _, _)
PriorityScan(b, rs, r, cur, avail, best) ==
    IF avail = << >> THEN best
    ELSE LET id == Head(avail)
             s(x) == get_priority_score(r, rs[x], get_shortest_path(b, cur, x).distance)
         IN IF best = "" \/ ScoreGreater(s(id), s(best))
            THEN PriorityScan(b, rs, r, cur, Tail(avail), id)
            ELSE PriorityScan(b, rs, r, cur, Tail(avail), best)

\* SYSTEMATIC: sorted by (-priority_level, room_id), first
SystematicChoice(rs, avail) ==
    LET S == {avail[i] : i \in 1..Len(avail)}
    IN CHOOSE id \in S :
           \A other \in S \ {id} :
               \/ rs[id].priority_level > rs[other].priority_level
               \/ /\ rs[id].priority_level = rs[other].priority_level
                  /\ rs[id].order < rs[other].order

\* SweepSimulation.get_next_room_nearest: "" stands for None
RECURSIVE get_next_room_nearest(_, _, _, _, _)
get_next_room_nearest(b, cur, unswept, min_distance, next_room) ==
    IF unswept = << >> THEN next_room
    ELSE LET d == get_shortest_path(b, cur, Head(unswept)).distance
         IN IF d >= 0 /\ (min_distance < 0 \/ d < min_distance)
            THEN get_next_room_nearest(b, cur, Tail(unswept), d, Head(unswept))
            ELSE get_next_room_nearest(b, cur, Tail(unswept), min_distance, next_room)

\* mutant: rooms the responder's own team has swept are offered again
get_next_room_own_team_again(b, rs, r) ==
    LET unswept_rooms == get_unswept_rooms(b, rs)
    IN IF unswept_rooms = << >> \/ ~Truthy(r.current_room_id) THEN ""
       ELSE SystematicChoice(rs, unswept_rooms)

\* SweepSimulation.get_next_room: "" stands for None
get_next_room(b, rs, r) ==
    LET unswept_rooms == get_unswept_rooms(b, rs)
        available_rooms ==
            FilterOrder(unswept_rooms,
                        {id \in RoomIds(b) : ~was_swept_by_team(rs[id], team_id_str(r))})
        cur == r.current_room_id.s
    IN IF unswept_rooms = << >> THEN ""
       ELSE IF available_rooms = << >> THEN ""
       ELSE IF ~Truthy(r.current_room_id) THEN ""
       ELSE CASE r.strategy = "NEAREST_FIRST" ->
                     NearestFirstChoice(b, rs, cur, available_rooms)
              [] r.strategy = "PRIORITY_BASED" ->
                     PriorityScan(b, rs, r, cur, available_rooms, "")
              [] r.strategy = "SYSTEMATIC" ->
                     SystematicChoice(rs, available_rooms)
              [] OTHER ->
                     get_next_room_nearest(b, cur, available_rooms, Inf, "")

\* mutant: the event is put in front of the log
log_event_in_front(ev, time, responder, event, room) == <<<<time, responder, event, room>>>> \o ev

\* SweepSimulation.log_event
log_event(ev, time, responder, event, room) == Append(ev, <<time, responder, event, room>>)

\* simulate_step, lines 214-222: the sweep sw is recorded again and logged
SweptOnArrival(rs, sw, ev1, next_room_id, key) ==
    [acted |-> TRUE,
     responder |-> sw.responder,
     rooms |-> [rs EXCEPT ![next_room_id] =
                   mark_swept(sw.room, sw.responder.current_time, key)],
     events |-> log_event(ev1, sw.responder.current_time, sw.responder.name, "SWEPT",
                          next_room_id)]

\* simulate_step, lines 208-222: sweep the room just entered, unless it is
\* fully swept or this team already swept it
SweepOnArrival(rs, moved, ev1, next_room_id, key) ==
    IF ~room_is_fully_swept(rs[next_room_id]) /\ ~was_swept_by_team(rs[next_room_id], key)
    THEN SweptOnArrival(rs, sweep_room(moved, rs[next_room_id]), ev1, next_room_id, key)
    ELSE [acted |-> TRUE, responder |-> moved, rooms |-> rs, events |-> ev1]

\* simulate_step, lines 195-206: move to the room and log ARRIVE
MoveAndSweep(rs, r, ev, next_room_id, distance) ==
    SweepOnArrival(rs,
                   [r EXCEPT !.total_distance_traveled = @ + distance,
                             !.current_time = @ + calculate_travel_time(r, distance),
                             !.current_room_id = StrV(next_room_id)],
                   log_event(ev, r.current_time + calculate_travel_time(r, distance),
                             r.name, "ARRIVE", next_room_id),
                   next_room_id, team_id_str(r))

\* simulate_step, lines 185-193: no target or no path, no step
StepTowards(b, rs, r, ev, next_room_id) ==
    IF next_room_id = ""
    THEN [acted |-> FALSE, responder |-> r, rooms |-> rs, events |-> ev]
    ELSE IF get_shortest_path(b, r.current_room_id.s, next_room_id).path = << >>
    THEN [acted |-> FALSE, responder |-> r, rooms |-> rs, events |-> ev]
    ELSE MoveAndSweep(rs, r, ev, next_room_id,
                      get_shortest_path(b, r.current_room_id.s, next_room_id).distance)

\* SweepSimulation.simulate_step
simulate_step(b, rs, r, ev) == StepTowards(b, rs, r, ev, get_next_room(b, rs, r))

(***************************************************************************)
(* The scheduler as a state machine.                                       *)
(***************************************************************************)
VARIABLES
    building,       \* the Building the simulation was constructed with
    rooms,          \* building.rooms: room id -> Room
    responders,     \* SweepSimulation.responders
    teams_by_id,    \* SweepSimulation.teams_by_id
    events,         \* SweepSimulation.events
    resweep_queue,  \* SweepSimulation.resweep_queue
    pc,             \* position of the caller / of run_simulation
    loc,            \* locals of run_simulation
    results,        \* the dict run_simulation returned last
    calls           \* the direct calls made on a room (second specification)

vars == <<building, rooms, responders, teams_by_id, events, resweep_queue, pc, loc,
          results, calls>>

NoLocals == [max_iterations |-> 0, iteration |-> 0, resweep_count |-> 0,
             any_action |-> FALSE, idx |-> 0, rooms_to_check |-> << >>]

\* no direct call made yet on room room_id
NoCalls(room_id) == [n |-> 0, room_id |-> room_id, op |-> "", team |-> None]

NoResults == [completion_time |-> 0, fully_swept |-> FALSE, iterations |-> 0,
              resweep_count |-> 0, unswept_rooms |-> 0, returned |-> FALSE]

\* team ids of a responder list, teams numbered in order of first appearance
\* (0: no team); ids are only compared and printed, so this loses no case
TeamLists(n) ==
    {t \in [1..n -> 0..n] :
        \A i \in 1..n : \A k \in 2..n :
            t[i] = k => \E j \in 1..(i - 1) : t[j] = k - 1}

ResponderList(n, t, strategy) ==
    [i \in 1..n |->
        Responder("R" \o NatStr(i), "Responder " \o NatStr(i), strategy,
                  IF t[i] = 0 THEN None ELSE IntV(t[i]))]

\* SweepSimulation.__init__
Init ==
    /\ building \in Buildings
    /\ rooms = FreshRooms(building)
    /\ \E n \in 0..MaxResponders : \E t \in TeamLists(n) : \E s \in SweepStrategy :
           responders = [i \in 1..n |->
                            set_emergency_context(ResponderList(n, t, s)[i], DefaultEmergency)]
    /\ teams_by_id = group_responders_by_team(responders)
    /\ events = << >>
    /\ resweep_queue = << >>
    /\ pc = "setup"
    /\ loc = NoLocals
    /\ results = NoResults
    /\ calls = NoCalls("")

\* START events of assign_starting_positions, responders in list order
RECURSIVE StartEvents(_, _, _, _, _)
StartEvents(rs, i, assigned, room_id, ev) ==
    IF i > Len(rs) THEN ev
    ELSE StartEvents(rs, i + 1, assigned, room_id,
                     IF i \in assigned THEN log_event(ev, 0, rs[i].name, "START", room_id)
                     ELSE ev)

\* the assignments tried: every responder, every responder but one, or none
Assignments(n) ==
    {A \in SUBSET (1..n) : A = {} \/ Cardinality((1..n) \ A) <= 1}

\* SweepSimulation.assign_starting_positions: the responders in `assigned`
\* are all given room_id
AssignStartingPositions ==
    /\ pc = "setup"
    /\ \E assigned \in Assignments(Len(responders)) : \E room_id \in RoomIds(building) :
          /\ responders' =[i \in 1..Len(responders) |->
                               IF i \in assigned
                               THEN [responders[i] EXCEPT !.current_room_id = StrV(room_id),
                                                          !.current_time = 0]
                               ELSE responders[i]]
          /\ events' = StartEvents(responders, 1, assigned, room_id, events)
    /\ pc' = "ready"
    /\ UNCHANGED <<building, rooms, teams_by_id, resweep_queue, loc, results, calls>>

\* the smallest cap that is larger than rooms times responders
AmpleCap(b, rs) == Cardinality(RoomIds(b)) * Len(rs) + 1

\* run_simulation(max_iterations): entry, with a small cap or an ample one
RunSimulation ==
    /\ pc = "ready"
    /\ \E max_iterations \in (0..MaxSmallCap) \cup {AmpleCap(building, responders)} :
          loc' = [NoLocals EXCEPT !.max_iterations = max_iterations]
    /\ pc' = "loop"
    /\ UNCHANGED <<building, rooms, responders, teams_by_id, events, resweep_queue,
                   results, calls>>

\* mutant: the loop is entered whatever the cap
LoopHead_uncapped ==
    /\ pc = "loop"
    /\ pc' = "sweep"
    /\ loc' = [loc EXCEPT !.any_action = FALSE, !.idx = 1]
    /\ UNCHANGED <<building, rooms, responders, teams_by_id, events, resweep_queue,
                   results, calls>>

\* while iteration < max_iterations: ... any_action = False
LoopHead ==
    /\ pc = "loop"
    /\ IF loc.iteration < loc.max_iterations
       THEN /\ pc' = "sweep"
            /\ loc' = [loc EXCEPT !.any_action = FALSE, !.idx = 1]
       ELSE /\ pc' = "result"
            /\ loc' = loc
    /\ UNCHANGED <<building, rooms, responders, teams_by_id, events, resweep_queue,
                   results, calls>>

\* phase 1 is at responder loc.idx of its for loop
InSweepLoop == pc = "sweep" /\ loc.idx <= Len(responders)

\* mutant: one clock for the crew, every responder's current_time follows the
\* step of the responder that acted
SweepStep_shared_clock ==
    /\ InSweepLoop
    /\ \E st \in {IF has_unswept_rooms(building, rooms)
                  THEN simulate_step(building, rooms, responders[loc.idx], events)
                  ELSE [acted |-> FALSE, responder |-> responders[loc.idx],
                        rooms |-> rooms, events |-> events]} :
          /\ responders' = [i \in 1..Len(responders) |->
                               IF i = loc.idx THEN st.responder
                               ELSE [responders[i] EXCEPT
                                        !.current_time = st.responder.current_time]]
          /\ rooms' = st.rooms
          /\ events' = st.events
          /\ loc' = [loc EXCEPT !.idx = @ + 1,
                                !.any_action = @ \/ st.acted]
    /\ UNCHANGED <<building, teams_by_id, resweep_queue, pc, results, calls>>

\* phase 1, one responder of the for loop
SweepStep ==
    /\ InSweepLoop
    /\ \E st \in {IF has_unswept_rooms(building, rooms)
                  THEN simulate_step(building, rooms, responders[loc.idx], events)
                  ELSE [acted |-> FALSE, responder |-> responders[loc.idx],
                        rooms |-> rooms, events |-> events]} :
          /\ responders' = [responders EXCEPT ![loc.idx] = st.responder]
          /\ rooms' = st.rooms
          /\ events' = st.events
          /\ loc' = [loc EXCEPT !.idx = @ + 1,
                                !.any_action = @ \/ st.acted]
    /\ UNCHANGED <<building, teams_by_id, resweep_queue, pc, results, calls>>

\* mutant: the slice is taken of the swept rooms, before the checked ones are
\* dropped, so a room past the first five is never looked at
CollectChecks_first_five ==
    /\ pc = "sweep"
    /\ loc.idx > Len(responders)
    /\ LET swept == FilterOrder(building.order, {id \in RoomIds(building) : rooms[id].is_swept})
           five == SubSeq(swept, 1, Min2(Len(swept), ChecksPerIteration))
       IN loc' = [loc EXCEPT !.idx = 1,
                             !.rooms_to_check =
                                 FilterOrder(five, {id \in RoomIds(building) :
                                                       rooms[id].checked_by_team = None})]
    /\ pc' = "check"
    /\ UNCHANGED <<building, rooms, responders, teams_by_id, events, resweep_queue,
                   results, calls>>

\* phase 2: rooms_to_check = [legacy-swept and unchecked rooms][:5]
CollectChecks ==
    /\ pc = "sweep"
    /\ loc.idx > Len(responders)
    /\ LET all == FilterOrder(building.order,
                              {id \in RoomIds(building) :
                                  rooms[id].is_swept /\ rooms[id].checked_by_team = None})
       IN loc' = [loc EXCEPT !.idx = 1,
                             !.rooms_to_check =
                                 SubSeq(all, 1, Min2(Len(all), ChecksPerIteration))]
    /\ pc' = "check"
    /\ UNCHANGED <<building, rooms, responders, teams_by_id, events, resweep_queue,
                   results, calls>>

\* phase 2, one room of the for loop
CheckStep ==
    /\ pc = "check"
    /\ loc.idx <= Len(loc.rooms_to_check)
    /\ LET room == rooms[loc.rooms_to_check[loc.idx]]
           checker == get_checker_from_different_team(
                          teams_by_id, responders,
                          IF Truthy(room.swept_by_team) THEN room.swept_by_team
                          ELSE IntV(1))
       IN IF checker # 0 /\ Truthy(room.swept_by_team)
          THEN \E ck \in {check_room([responders[checker] EXCEPT
                                          !.current_room_id = StrV(room.room_id)], room)} :
                  /\ responders' = [responders EXCEPT ![checker] = ck.responder]
                  /\ rooms' = [rooms EXCEPT ![room.room_id] = ck.room]
                  /\ events' = IF ck.needs_resweep
                               THEN log_event(log_event(events, ck.responder.current_time,
                                                        ck.responder.name, "CHECKED",
                                                        room.room_id),
                                              ck.responder.current_time,
                                              ck.responder.name, "RESWEEP-NEEDED",
                                              room.room_id)
                               ELSE log_event(events, ck.responder.current_time,
                                              ck.responder.name, "CHECKED", room.room_id)
                  /\ resweep_queue' = IF ck.needs_resweep
                                      THEN Append(resweep_queue, room.room_id)
                                      ELSE resweep_queue
                  /\ loc' = [loc EXCEPT !.idx = @ + 1,
                                        !.any_action = TRUE,
                                        !.resweep_count =
                                            IF ck.needs_resweep THEN @ + 1 ELSE @]
          ELSE /\ loc' = [loc EXCEPT !.idx = @ + 1]
               /\ UNCHANGED <<responders, rooms, events, resweep_queue>>
    /\ UNCHANGED <<building, teams_by_id, pc, results, calls>>

\* first responder with responder.team_id != room.swept_by_team, 0 if none
RECURSIVE FirstOtherTeam(_, _, _)
FirstOtherTeam(rs, i, swept_by_team) ==
    IF i > Len(rs) THEN 0
    ELSE IF rs[i].team_id # swept_by_team THEN i
    ELSE FirstOtherTeam(rs, i + 1, swept_by_team)

\* phase 3 (one room popped from the resweep queue), then the stop test and
\* iteration += 1
ResweepAndNext ==
    /\ pc = "check"
    /\ loc.idx > Len(loc.rooms_to_check)
    /\ LET popped == resweep_queue # << >>
           queue1 == IF popped THEN Tail(resweep_queue) ELSE resweep_queue
           room_id == IF popped THEN Head(resweep_queue) ELSE ""
           who == IF popped THEN FirstOtherTeam(responders, 1, rooms[room_id].swept_by_team)
                  ELSE 0
           sw == sweep_room([responders[who] EXCEPT !.current_room_id = StrV(room_id)],
                            rooms[room_id])
           acted == loc.any_action \/ who # 0
       IN /\ resweep_queue' = queue1
          /\ IF who # 0
             THEN /\ responders' = [responders EXCEPT ![who] = sw.responder]
                  /\ rooms' = [rooms EXCEPT ![room_id] = sw.room]
                  /\ events' = log_event(events, sw.responder.current_time,
                                         sw.responder.name, "RESWEEP", room_id)
             ELSE UNCHANGED <<responders, rooms, events>>
          /\ IF ~acted /\ queue1 = << >>
             THEN /\ pc' = "result"
                  /\ loc' = [loc EXCEPT !.any_action = acted]
             ELSE /\ pc' = "loop"
                  /\ loc' = [loc EXCEPT !.any_action = acted, !.iteration = @ + 1]
    /\ UNCHANGED <<building, teams_by_id, results, calls>>

\* round(x, 2) of a time in ms: to the nearest 10 ms, a tie to the even
\* hundredth as round() does on the decimal value
Round2(t) ==
    LET q == t \div 10
        r == t % 10
    IN IF r < 5 THEN q * 10
       ELSE IF r > 5 THEN (q + 1) * 10
       ELSE IF q % 2 = 0 THEN q * 10 ELSE (q + 1) * 10

\* mutant: the clock of the first responder is taken
MaxTime_first_responder(rs, i) == IF i > Len(rs) THEN 0 ELSE rs[i].current_time

\* max(r.current_time for r in responders) if responders else 0
RECURSIVE MaxTime(_, _)
MaxTime(rs, i) == IF i > Len(rs) THEN 0 ELSE Max2(rs[i].current_time, MaxTime(rs, i + 1))

\* run_simulation: the results dict (times in ms)
Results ==
    /\ pc = "result"
    /\ results' = [completion_time |-> Round2(MaxTime(responders, 1)),
                   fully_swept |-> building_is_fully_swept(building, rooms),
                   iterations |-> loc.iteration,
                   resweep_count |-> loc.resweep_count,
                   unswept_rooms |-> get_building_stats(building, rooms).unswept_rooms,
                   returned |-> TRUE]
    /\ pc' = "done"
    /\ UNCHANGED <<building, rooms, responders, teams_by_id, events, resweep_queue, loc,
                   calls>>

\* SweepSimulation.reset
Reset ==
    /\ pc = "done"
    /\ rooms' = reset_sweep_status(building, rooms)
    /\ responders' = [i \in 1..Len(responders) |-> responder_reset(responders[i])]
    /\ events' = << >>
    /\ resweep_queue' = << >>
    /\ teams_by_id' = group_responders_by_team(responders')
    /\ pc' = "setup"
    /\ loc' = NoLocals
    /\ results' = NoResults
    /\ UNCHANGED <<building, calls>>

Next ==
    \/ AssignStartingPositions
    \/ RunSimulation
    \/ LoopHead
    \/ SweepStep
    \/ CollectChecks
    \/ CheckStep
    \/ ResweepAndNext
    \/ Results
    \/ Reset

Spec == Init /\ [][Next]_vars


(***************************************************************************)
(* Specification of a rerun: a scenario is run, reset with                 *)
(* SweepSimulation.reset, given the same assign_starting_positions call    *)
(* and the same cap, and run again.  `calls` keeps what the caller holds:  *)
(* the arguments it passed and the outputs of the first run.               *)
(***************************************************************************)
NoRerun == [n |-> 0, assigned |-> {}, room_id |-> "", cap |-> 0,
            prev_events |-> << >>, prev_time |-> 0, op |-> "", team |-> None]

RerunInit ==
    /\ building \in Buildings
    /\ rooms = FreshRooms(building)
    /\ \E n \in 0..MaxResponders : \E t \in TeamLists(n) : \E s \in SweepStrategy :
           responders = [i \in 1..n |->
                            set_emergency_context(ResponderList(n, t, s)[i], DefaultEmergency)]
    /\ teams_by_id = group_responders_by_team(responders)
    /\ events = << >>
    /\ resweep_queue = << >>
    /\ pc = "setup"
    /\ loc = NoLocals
    /\ results = NoResults
    /\ calls = NoRerun

\* assign_starting_positions: any call in the first run, the same call again
\* in the second
RerunAssign ==
    /\ pc = "setup"
    /\ \E assigned \in Assignments(Len(responders)) : \E room_id \in RoomIds(building) :
          /\ calls.n = 1 => (assigned = calls.assigned /\ room_id = calls.room_id)
          /\ responders' = [i \in 1..Len(responders) |->
                                IF i \in assigned
                                THEN [responders[i] EXCEPT !.current_room_id = StrV(room_id),
                                                           !.current_time = 0]
                                ELSE responders[i]]
          /\ events' = StartEvents(responders, 1, assigned, room_id, events)
          /\ calls' = [calls EXCEPT !.assigned = assigned, !.room_id = room_id]
    /\ pc' = "ready"
    /\ UNCHANGED <<building, rooms, teams_by_id, resweep_queue, loc, results>>

\* run_simulation(max_iterations): any cap in the first run, the same again
RerunRunSimulation ==
    /\ pc = "ready"
    /\ \E max_iterations \in (0..MaxSmallCap) \cup {AmpleCap(building, responders)} :
          /\ calls.n = 1 => max_iterations = calls.cap
          /\ loc' = [NoLocals EXCEPT !.max_iterations = max_iterations]
          /\ calls' = [calls EXCEPT !.cap = max_iterations]
    /\ pc' = "loop"
    /\ UNCHANGED <<building, rooms, responders, teams_by_id, events, resweep_queue,
                   results>>

\* SweepSimulation.reset after the first run; the caller keeps its outputs
RerunReset ==
    /\ pc = "done"
    /\ calls.n = 0
    /\ rooms' = reset_sweep_status(building, rooms)
    /\ responders' = [i \in 1..Len(responders) |-> responder_reset(responders[i])]
    /\ events' = << >>
    /\ resweep_queue' = << >>
    /\ teams_by_id' = group_responders_by_team(responders')
    /\ pc' = "setup"
    /\ loc' = NoLocals
    /\ results' = NoResults
    /\ calls' = [calls EXCEPT !.n = 1, !.prev_events = events,
                              !.prev_time = results.completion_time]
    /\ UNCHANGED building

RerunNext ==
    \/ RerunAssign
    \/ RerunRunSimulation
    \/ LoopHead
    \/ SweepStep
    \/ CollectChecks
    \/ CheckStep
    \/ ResweepAndNext
    \/ Results
    \/ RerunReset

RerunSpec == RerunInit /\ [][RerunNext]_vars

(***************************************************************************)
(* Specification of a fire of two severities: a scenario whose building    *)
(* has a FIRE emergency is run, then the same scenario is constructed      *)
(* again with a larger severity argument and run with the same             *)
(* assign_starting_positions call and cap.  `calls` keeps the arguments    *)
(* and the outputs of the first run.                                       *)
(***************************************************************************)
\* severity arguments in thousandths: below, at and above the clamp 0.1..3.0
Severities == {50, 100, 2000, 3000, 4000}

\* Building(name, emergency=EmergencyContext(EmergencyType.FIRE, severity))
FireBuilding(b, severity) ==
    [name |-> b.name, order |-> b.order, args |-> b.args, edges |-> b.edges,
     emergency |-> EmergencyContext("FIRE", severity, FALSE, 0)]

\* SweepSimulation(building, responders) with n responders of teams 1..n
FireResponders(b, n, strategy) ==
    [i \in 1..n |->
        set_emergency_context(ResponderList(n, [j \in 1..n |-> j], strategy)[i], b.emergency)]

SeverityInit ==
    /\ \E b \in Buildings : \E severity \in Severities :
          /\ building = FireBuilding(b, severity)
          /\ calls = [NoRerun EXCEPT !.op = "FIRE", !.team = IntV(severity)]
    /\ rooms = FreshRooms(building)
    /\ \E n \in 0..MaxResponders : \E s \in SweepStrategy :
           responders = FireResponders(building, n, s)
    /\ teams_by_id = group_responders_by_team(responders)
    /\ events = << >>
    /\ resweep_queue = << >>
    /\ pc = "setup"
    /\ loc = NoLocals
    /\ results = NoResults

\* the scenario constructed again with a larger severity argument; the
\* caller keeps the first severity in `team` and the first outputs
MoreSevere ==
    /\ pc = "done"
    /\ calls.n = 0
    /\ \E severity \in Severities :
          /\ IntV(severity).n > calls.team.n
          /\ building' = FireBuilding(building, severity)
    /\ rooms' = FreshRooms(building')
    /\ responders' = FireResponders(building', Len(responders),
                                    IF Len(responders) = 0 THEN "NEAREST_FIRST"
                                    ELSE responders[1].strategy)
    /\ teams_by_id' = group_responders_by_team(responders')
    /\ events' = << >>
    /\ resweep_queue' = << >>
    /\ pc' = "setup"
    /\ loc' = NoLocals
    /\ results' = NoResults
    /\ calls' = [calls EXCEPT !.n = 1, !.prev_events = events,
                              !.prev_time = results.completion_time]

SeverityNext ==
    \/ RerunAssign
    \/ RerunRunSimulation
    \/ LoopHead
    \/ SweepStep
    \/ CollectChecks
    \/ CheckStep
    \/ ResweepAndNext
    \/ Results
    \/ MoreSevere

SeveritySpec == SeverityInit /\ [][SeverityNext]_vars

(***************************************************************************)
(* Specification of NEAREST_FIRST routing: the scheduler with responders   *)
(* of that strategy, in the buildings above and on the campus.             *)
(***************************************************************************)
RoutingInit ==
    /\ building \in AllBuildings
    /\ rooms = FreshRooms(building)
    /\ \E n \in 0..MaxResponders : \E t \in TeamLists(n) :
           responders = [i \in 1..n |->
                            set_emergency_context(ResponderList(n, t, "NEAREST_FIRST")[i],
                                                  DefaultEmergency)]
    /\ teams_by_id = group_responders_by_team(responders)
    /\ events = << >>
    /\ resweep_queue = << >>
    /\ pc = "setup"
    /\ loc = NoLocals
    /\ results = NoResults
    /\ calls = NoCalls("")

RoutingSpec == RoutingInit /\ [][Next]_vars

(***************************************************************************)
(* Specification of runs with more rooms awaiting a check than one         *)
(* iteration checks: the seven-room wing and a larger crew.                *)
(***************************************************************************)
\* the size of the crew
BacklogResponders == 6

\* team ids of the crew: one team, two or three teams in turn, no team, or
\* one team for the last responder only
TeamPatterns(n) ==
    {[i \in 1..n |-> 1], [i \in 1..n |-> 1 + (i % 2)], [i \in 1..n |-> 1 + (i % 3)],
     [i \in 1..n |-> 0], [i \in 1..n |-> IF i = n THEN 1 ELSE 0]}

BacklogInit ==
    /\ building = WingBuilding
    /\ rooms = FreshRooms(building)
    /\ \E t \in TeamPatterns(BacklogResponders) : \E s \in SweepStrategy :
           responders = [i \in 1..BacklogResponders |->
                            set_emergency_context(
                                ResponderList(BacklogResponders, t, s)[i], DefaultEmergency)]
    /\ teams_by_id = group_responders_by_team(responders)
    /\ events = << >>
    /\ resweep_queue = << >>
    /\ pc = "setup"
    /\ loc = NoLocals
    /\ results = NoResults
    /\ calls = NoCalls("")

BacklogSpec == BacklogInit /\ [][Next]_vars

(***************************************************************************)
(* Specification of the construction of a building: Building(name), then   *)
(* add_room and add_path calls with any arguments.  `calls` holds the last *)
(* call, its arguments and the exception it raised, if any.                *)
(***************************************************************************)
\* Building.__init__
EmptyBuilding == [name |-> "Site", order |-> << >>, args |-> << >>, edges |-> {}, exits |-> << >>]

\* room ids a caller may pass; "Roof" is never constructed as a Room
PathIds == {"Exit1", "Hallway", "Room1", "Roof"}
PathDistances == {5000, 8000}

\* Building.add_room: the dict keeps the position of a key that is stored again
add_room(b, a) ==
    [name |-> b.name,
     order |-> IF a.room_id \in RoomIds(b) THEN b.order ELSE Append(b.order, a.room_id),
     args |-> [id \in RoomIds(b) \cup {a.room_id} |-> IF id = a.room_id THEN a ELSE b.args[id]],
     edges |-> b.edges,
     exits |-> IF a.room_type = "EXIT" THEN Append(b.exits, a.room_id) ELSE b.exits]

\* nx.Graph.add_edge: one undirected edge per pair, the distance is overwritten
add_edge(edges, room1_id, room2_id, distance) ==
    {e \in edges : {e[1], e[2]} # {room1_id, room2_id}} \cup {<<room1_id, room2_id, distance>>}

ValueError(room_id) == [raised |-> "ValueError", room_id |-> room_id]

\* mutant: only the first endpoint is looked up
add_path_checks_first_only(b, room1_id, room2_id, distance) ==
    IF room1_id \notin RoomIds(b)
    THEN [building |-> b, error |-> ValueError(room1_id)]
    ELSE [building |-> [b EXCEPT !.edges = add_edge(b.edges, room1_id, room2_id, distance)],
          error |-> None]

\* Building.add_path
add_path(b, room1_id, room2_id, distance) ==
    IF room1_id \notin RoomIds(b)
    THEN [building |-> b, error |-> ValueError(room1_id)]
    ELSE IF room2_id \notin RoomIds(b)
    THEN [building |-> b, error |-> ValueError(room2_id)]
    ELSE [building |-> [b EXCEPT !.edges = add_edge(b.edges, room1_id, room2_id, distance)],
          error |-> None]

NoBuildCalls == [n |-> 0, op |-> "", room_id |-> "", room2_id |-> "", error |-> None, team |-> None]

BuildInit ==
    /\ building = EmptyBuilding
    /\ rooms = FreshRooms(building)
    /\ responders = << >>
    /\ teams_by_id = group_responders_by_team(responders)
    /\ events = << >>
    /\ resweep_queue = << >>
    /\ pc = "build"
    /\ loc = NoLocals
    /\ results = NoResults
    /\ calls = NoBuildCalls

CallAddRoom ==
    /\ pc = "build"
    /\ calls.n < MaxCalls
    /\ \E id \in RoomIds(LinearBuilding) :
          /\ building' = add_room(building, LinearBuilding.args[id])
          /\ calls' = [n |-> calls.n + 1, op |-> "add_room", room_id |-> id, room2_id |-> "",
                       error |-> None, team |-> None]
    /\ rooms' = FreshRooms(building')
    /\ UNCHANGED <<responders, teams_by_id, events, resweep_queue, pc, loc, results>>

CallAddPath ==
    /\ pc = "build"
    /\ calls.n < MaxCalls
    /\ \E room1_id \in PathIds : \E room2_id \in PathIds : \E distance \in PathDistances :
          LET out == add_path(building, room1_id, room2_id, distance)
          IN /\ building' = out.building
             /\ calls' = [n |-> calls.n + 1, op |-> "add_path", room_id |-> room1_id,
                          room2_id |-> room2_id, error |-> out.error, team |-> None]
    /\ rooms' = FreshRooms(building')
    /\ UNCHANGED <<responders, teams_by_id, events, resweep_queue, pc, loc, results>>

BuildNext == CallAddRoom \/ CallAddPath

BuildSpec == BuildInit /\ [][BuildNext]_vars

(***************************************************************************)
(* Second specification: a client that drives one room of a building and   *)
(* three responders directly through the public methods, without the       *)
(* scheduler.  The time passed to a direct call is the call number in      *)
(* seconds.                                                                *)
(***************************************************************************)
\* team arguments of the direct calls: no team, falsy and truthy ints, a str
ApiTeams == {None, IntV(0), IntV(1), IntV(2), IntV(3), StrV("1")}

\* the is_swept / is_checked constructor arguments tried for the driven room
PresetFlags == {<<FALSE, FALSE>>, <<TRUE, FALSE>>, <<FALSE, TRUE>>}

\* building b with room room_id constructed with is_swept, is_checked = flags
WithPreset(b, room_id, flags) ==
    [b EXCEPT !.args[room_id].is_swept = flags[1], !.args[room_id].is_checked = flags[2]]

RoomInit ==
    /\ \E b \in Buildings : \E room_id \in RoomIds(b) :
           /\ building = b
           /\ calls = NoCalls(room_id)
    /\ rooms = FreshRooms(building)
    /\ responders = ResponderList(3, <<1, 2, 3>>, "NEAREST_FIRST")
    /\ teams_by_id = group_responders_by_team(responders)
    /\ events = << >>
    /\ resweep_queue = << >>
    /\ pc = "api"
    /\ loc = NoLocals
    /\ results = NoResults

\* the same, the room the calls are made on being constructed with any of
\* the preset flags
PresetInit ==
    /\ \E b \in Buildings : \E room_id \in RoomIds(b) : \E flags \in PresetFlags :
           /\ building = WithPreset(b, room_id, flags)
           /\ calls = NoCalls(room_id)
    /\ rooms = FreshRooms(building)
    /\ responders = ResponderList(3, <<1, 2, 3>>, "NEAREST_FIRST")
    /\ teams_by_id = group_responders_by_team(responders)
    /\ events = << >>
    /\ resweep_queue = << >>
    /\ pc = "api"
    /\ loc = NoLocals
    /\ results = NoResults

Called(op, team) == [calls EXCEPT !.n = @ + 1, !.op = op, !.team = team]

\* room.mark_swept(time, team_id)
CallMarkSwept ==
    /\ pc = "api" /\ calls.n < MaxCalls
    /\ \E team_id \in ApiTeams :
          /\ rooms' = [rooms EXCEPT ![calls.room_id] =
                           mark_swept(@, (calls.n + 1) * 1000, team_id)]
          /\ calls' = Called("mark_swept", team_id)
    /\ UNCHANGED <<building, responders, teams_by_id, events, resweep_queue, pc, loc,
                   results>>

\* room.mark_checked(time, team_id)
CallMarkChecked ==
    /\ pc = "api" /\ calls.n < MaxCalls
    /\ \E team_id \in ApiTeams :
          /\ rooms' = [rooms EXCEPT ![calls.room_id] =
                           mark_checked(@, (calls.n + 1) * 1000, team_id)]
          /\ calls' = Called("mark_checked", team_id)
    /\ UNCHANGED <<building, responders, teams_by_id, events, resweep_queue, pc, loc,
                   results>>

\* responder.sweep_room(room)
CallSweepRoom ==
    /\ pc = "api" /\ calls.n < MaxCalls
    /\ \E i \in 1..Len(responders) :
          /\ responders' = [responders EXCEPT ![i] =
                                sweep_room(responders[i], rooms[calls.room_id]).responder]
          /\ rooms' = [rooms EXCEPT ![calls.room_id] =
                           sweep_room(responders[i], rooms[calls.room_id]).room]
          /\ calls' = Called("sweep_room", responders[i].team_id)
    /\ UNCHANGED <<building, teams_by_id, events, resweep_queue, pc, loc, results>>

\* responder.check_room(room)
CallCheckRoom ==
    /\ pc = "api" /\ calls.n < MaxCalls
    /\ \E i \in 1..Len(responders) :
          /\ responders' = [responders EXCEPT ![i] =
                                check_room(responders[i], rooms[calls.room_id]).responder]
          /\ rooms' = [rooms EXCEPT ![calls.room_id] =
                           check_room(responders[i], rooms[calls.room_id]).room]
          /\ calls' = Called("check_room", responders[i].team_id)
    /\ UNCHANGED <<building, teams_by_id, events, resweep_queue, pc, loc, results>>

\* building.reset_sweep_status()
CallResetSweepStatus ==
    /\ pc = "api" /\ calls.n < MaxCalls
    /\ rooms' = reset_sweep_status(building, rooms)
    /\ calls' = Called("reset_sweep_status", None)
    /\ UNCHANGED <<building, responders, teams_by_id, events, resweep_queue, pc, loc,
                   results>>

RoomNext ==
    \/ CallMarkSwept
    \/ CallMarkChecked
    \/ CallSweepRoom
    \/ CallCheckRoom
    \/ CallResetSweepStatus

RoomSpec == RoomInit /\ [][RoomNext]_vars

PresetSpec == PresetInit /\ [][RoomNext]_vars

\* a client either runs the scheduler or drives a room directly
(***************************************************************************)
(* Specification of the priority of a room: one room of any of the listed  *)
(* types and priority overrides, and direct calls on it.                   *)
(***************************************************************************)
\* one RoomType of each priority level
PriorityRoomTypes == {"DAYCARE", "CLASSROOM", "OFFICE", "HALLWAY", "EXIT"}

\* priority_override: None, the documented 1..5 and the integers next to them
PriorityOverrides == {None, IntV(0), IntV(1), IntV(2), IntV(3), IntV(4), IntV(5), IntV(6)}

\* a building of one room constructed with this type and override
SingleRoomBuilding(room_type, priority_override) ==
    [name |-> "Single",
     order |-> <<"Room1">>,
     args |-> [Room1 |-> [RoomArgs("Room1", 1, 25, room_type, "NONE", 2, 1000)
                             EXCEPT !.priority_override = priority_override]],
     edges |-> {}]

PriorityInit ==
    /\ \E room_type \in PriorityRoomTypes : \E priority_override \in PriorityOverrides :
           building = SingleRoomBuilding(room_type, priority_override)
    /\ calls = NoCalls("Room1")
    /\ rooms = FreshRooms(building)
    /\ responders = ResponderList(3, <<1, 2, 3>>, "NEAREST_FIRST")
    /\ teams_by_id = group_responders_by_team(responders)
    /\ events = << >>
    /\ resweep_queue = << >>
    /\ pc = "api"
    /\ loc = NoLocals
    /\ results = NoResults

PrioritySpec == PriorityInit /\ [][RoomNext]_vars

AnyInit == Init \/ RoomInit

AnyNext == Next \/ RoomNext

AnySpec == AnyInit /\ [][AnyNext]_vars

(***************************************************************************)
(* Observers used by the properties below.                                 *)
(***************************************************************************)
\* the team a responder counts as: its team id, or itself when it has none
TeamOf(r) == IF r.team_id # None THEN r.team_id ELSE StrV(r.responder_id)

ResponderNamed(name) == CHOOSE i \in 1..Len(responders) : responders[i].name = name

\* event k records a sweep of room_id
IsSweepOf(k, room_id) == events[k][3] \in {"SWEPT", "RESWEEP"} /\ events[k][4] = room_id

\* the teams whose responders swept room_id in this run
SweepingTeams(room_id) ==
    {TeamOf(responders[ResponderNamed(events[k][2])]) :
        k \in {j \in 1..Len(events) : IsSweepOf(j, room_id)}}

DistinctTeams == {TeamOf(responders[i]) : i \in 1..Len(responders)}

\* responder i was given room_id by assign_starting_positions
StartedAt(i, room_id) ==
    \E k \in 1..Len(events) : events[k] = <<0, responders[i].name, "START", room_id>>

Returned == pc = "done" /\ results.returned

\* the number of sweeps of room_id in this run
SweepCount(room_id) == Cardinality({k \in 1..Len(events) : IsSweepOf(k, room_id)})

\* the largest required_sweeps_count of any room
MaxRequired ==
    CHOOSE m \in 1..3 :
        /\ \E id \in RoomIds(building) : rooms[id].required_sweeps_count = m
        /\ \A id \in RoomIds(building) : rooms[id].required_sweeps_count <= m

\* fewer distinct teams than some room requires, or no second team to check
TooFewTeams ==
    Cardinality(DistinctTeams) < MaxRequired \/ Cardinality(DistinctTeams) < 2

\* max_iterations is larger than rooms times responders
CapIsAmple == loc.max_iterations > Cardinality(RoomIds(building)) * Len(responders)

(***************************************************************************)
(* Properties.                                                             *)
(***************************************************************************)
\* C1: whenever run_simulation ends with fully_swept = true, every room was
\* swept by responders of at least required_sweeps_count different teams
C1_FullySweptByEnoughTeams ==
    (Returned /\ results.fully_swept) =>
        \A id \in RoomIds(building) :
            Cardinality(SweepingTeams(id)) >= rooms[id].required_sweeps_count

\* a run that returned fully_swept = true although a room was swept by
\* fewer teams than it requires
C1_Witness ==
    /\ Returned /\ results.fully_swept
    /\ \E id \in RoomIds(building) :
           /\ rooms[id].required_sweeps_count = 3
           /\ Cardinality(SweepingTeams(id)) = 2

\* C2: each CHECKED event is by a responder whose team differs from the team
\* of the most recent sweep of the checked room
C2_CheckedByAnotherTeam ==
    \A k \in 1..Len(events) : \A j \in 1..(k - 1) :
        (/\ events[k][3] = "CHECKED"
         /\ IsSweepOf(j, events[k][4])
         /\ \A m \in (j + 1)..(k - 1) : ~IsSweepOf(m, events[k][4]))
        => TeamOf(responders[ResponderNamed(events[k][2])])
               # TeamOf(responders[ResponderNamed(events[j][2])])

\* a room whose only sweeper is also its checker
C2_Witness ==
    \E k \in 1..Len(events) : \E j \in 1..(k - 1) :
        /\ events[k][3] = "CHECKED" /\ IsSweepOf(j, events[k][4])
        /\ SweepCount(events[k][4]) = 1
        /\ events[k][2] = events[j][2]

\* the scenario of C3: the linear layout, two responders of one team, both
\* started at the exit
SharedTeamLinear ==
    /\ building = LinearBuilding
    /\ Len(responders) = 2
    /\ responders[1].team_id = IntV(1) /\ responders[2].team_id = IntV(1)
    /\ StartedAt(1, "Exit1") /\ StartedAt(2, "Exit1")
    /\ CapIsAmple

\* C3: in the linear layout with two responders of one team no room is ever
\* checked (checked_by_team stays null, needs_resweep stays false) and the
\* run returns fully_swept = false
C3_SharedTeamNeverChecks ==
    SharedTeamLinear =>
        /\ \A id \in RoomIds(building) :
               rooms[id].checked_by_team = None /\ ~rooms[id].needs_resweep
        /\ Returned => ~results.fully_swept

\* the last iteration of the loop was idle: no action in any phase, queue empty
StoppedIdle == ~loc.any_action /\ resweep_queue = << >>

\* the shared-team run returned with every room checked by the one team
C3_Witness ==
    /\ Returned /\ SharedTeamLinear
    /\ results.fully_swept
    /\ \A id \in RoomIds(building) : rooms[id].checked_by_team = IntV(1)

\* C4 as stated: with too few teams the run returns fully_swept = false and
\* iterations = max_iterations
C4_TooFewTeamsRunsToCap ==
    (Returned /\ TooFewTeams) =>
        ~results.fully_swept /\ results.iterations = loc.max_iterations

\* C4 amended: with too few teams the run returns without running to the
\* cap: it stops at its first idle iteration, so iterations is below every
\* cap larger than rooms times responders and equals the cap only when the
\* cap cut the run short; fully_swept is false exactly when some room is
\* left with fewer recorded sweeps than it requires
C4_TooFewTeamsStopsIdle ==
    (Returned /\ TooFewTeams) =>
        /\ results.iterations <= loc.max_iterations
        /\ results.iterations < loc.max_iterations => StoppedIdle
        /\ CapIsAmple => results.iterations < loc.max_iterations
        /\ results.fully_swept <=>
               \A id \in RoomIds(building) :
                   rooms[id].actual_sweeps_count >= rooms[id].required_sweeps_count

\* a run of one team that could not complete a room and stopped early
C4_Witness ==
    /\ Returned /\ TooFewTeams /\ CapIsAmple
    /\ Len(responders) > 0
    /\ ~results.fully_swept
    /\ results.iterations > 0 /\ results.iterations < loc.max_iterations

\* what C5 says of every state of a run
C5_Bounded ==
    /\ loc.iteration <= loc.max_iterations
    /\ Returned =>
          /\ results.iterations <= loc.max_iterations
          /\ results.iterations = loc.max_iterations \/ StoppedIdle
    /\ (pc = "loop" /\ loc.iteration > 0) => ~StoppedIdle

\* run_simulation is between its entry and its return
Running == pc \in {"loop", "sweep", "check", "result"}

\* steps one iteration of the loop takes at most, plus one
StepsPerIteration == Len(responders) + ChecksPerIteration + 4

\* a bound on the steps run_simulation still takes before it returns
Measure ==
    CASE pc = "result" -> 1
      [] pc = "loop" ->
             2 + (loc.max_iterations - loc.iteration) * StepsPerIteration
               + StepsPerIteration - 1
      [] pc = "sweep" ->
             2 + (loc.max_iterations - loc.iteration) * StepsPerIteration
               + StepsPerIteration - 1 - loc.idx
      [] pc = "check" ->
             2 + (loc.max_iterations - loc.iteration) * StepsPerIteration
               + ChecksPerIteration + 1 - loc.idx
      [] OTHER -> 0

\* some step of run_simulation can be taken (phase 1 steps are total: they
\* can be taken whenever the for loop is at a responder)
CanStep ==
    \/ ENABLED LoopHead
    \/ InSweepLoop
    \/ ENABLED CollectChecks
    \/ ENABLED CheckStep
    \/ ENABLED ResweepAndNext
    \/ ENABLED Results

\* C5: run_simulation terminates (while it runs it can always take a step,
\* and every step lowers a natural-number bound on the steps left) with
\* iterations <= max_iterations, and the loop stops as soon as an iteration
\* is idle (no action in any phase, empty resweep queue): every counted
\* iteration did something
C5_Terminates ==
    /\ [](C5_Bounded /\ Measure >= 0 /\ (Running => CanStep))
    /\ [][Running => Measure' < Measure]_vars

\* a run that stopped on an idle iteration after some counted ones
C5_Witness ==
    /\ Returned /\ StoppedIdle
    /\ results.iterations > 0 /\ results.iterations < loc.max_iterations

\* every room can be reached from every room
Connected(b) == \A x \in RoomIds(b) : \A y \in RoomIds(b) : Dist(b, x, y) >= 0

\* the well-formed scenarios of C6
WellFormed ==
    /\ Connected(building)
    /\ \A i \in 1..Len(responders) : \E id \in RoomIds(building) : StartedAt(i, id)
    /\ Cardinality(DistinctTeams) >= MaxRequired
    /\ CapIsAmple

\* C6: a well-formed scenario ends below the cap with fully_swept = true,
\* whatever the strategy
C6_WellFormedCompletes ==
    (Returned /\ WellFormed) =>
        results.fully_swept /\ results.iterations < loc.max_iterations

\* a completed well-formed run over the rooms of priority 5 and 4
C6_Witness ==
    /\ Returned /\ WellFormed
    /\ building = PriorityBuilding
    /\ results.fully_swept
    /\ \A id \in RoomIds(building) : Cardinality(SweepingTeams(id)) >= 1

\* C7: for every room, in every state reached by direct calls or by the
\* scheduler, actual_sweeps_count is the length of sweep_history and
\* is_fully_swept() is true exactly when the count reaches the required one
C7_CountIsHistoryLength ==
    \A id \in RoomIds(building) :
        /\ rooms[id].actual_sweeps_count = Len(rooms[id].sweep_history)
        /\ room_is_fully_swept(rooms[id])
               <=> rooms[id].actual_sweeps_count >= rooms[id].required_sweeps_count

\* a room with several recorded sweeps that has also been checked
C7_Witness ==
    \E id \in RoomIds(building) :
        /\ Len(rooms[id].sweep_history) >= 2
        /\ rooms[id].checked_by_team # None
        /\ room_is_fully_swept(rooms[id])

\* the scenario of C8: the linear layout, two responders of teams 1 and 2,
\* both started at the exit, routed as in test_sweep_check_resweep_cycle
TwoTeamsLinear ==
    /\ building = LinearBuilding
    /\ Len(responders) = 2
    /\ responders[1].team_id = IntV(1) /\ responders[2].team_id = IntV(2)
    /\ responders[1].strategy = "NEAREST_FIRST"
    /\ StartedAt(1, "Exit1") /\ StartedAt(2, "Exit1")
    /\ CapIsAmple

\* the last event of the given kinds about room_id, 0 if there is none
LastEvent(kinds, room_id) ==
    LET S == {k \in 1..Len(events) : events[k][3] \in kinds /\ events[k][4] = room_id}
    IN IF S = {} THEN 0 ELSE CHOOSE k \in S : \A j \in S : j <= k

\* C8: the linear layout with two responders of different teams ends with
\* fully_swept = true and resweep_count = 0, and the Office was checked by a
\* team other than the one that swept it
C8_OfficeCheckedByOtherTeam ==
    (Returned /\ TwoTeamsLinear) =>
        /\ results.fully_swept
        /\ results.resweep_count = 0
        /\ rooms["Room1"].checked_by_team # None
        /\ LastEvent({"CHECKED"}, "Room1") # 0
        /\ TeamOf(responders[ResponderNamed(events[LastEvent({"CHECKED"}, "Room1")][2])])
               # TeamOf(responders[ResponderNamed(
                            events[LastEvent({"SWEPT", "RESWEEP"}, "Room1")][2])])

\* the Office was swept under the key "1" and checked by team 1
C8_Witness ==
    /\ Returned /\ TwoTeamsLinear
    /\ rooms["Room1"].swept_by_team = StrV("1")
    /\ rooms["Room1"].checked_by_team = IntV(1)

\* C9: a priority-5 room swept twice, by responders of two different teams,
\* is not fully swept; swept a third time by a third team, it is
C9_DaycareNeedsThreeTeams ==
    \A id \in RoomIds(building) :
        rooms[id].priority_level = 5 =>
            /\ (SweepCount(id) = 2 /\ Cardinality(SweepingTeams(id)) = 2)
                   => ~room_is_fully_swept(rooms[id])
            /\ (SweepCount(id) = 3 /\ Cardinality(SweepingTeams(id)) = 3)
                   => room_is_fully_swept(rooms[id])

\* a priority-5 room that is fully swept after two sweeps by two teams
C9_Witness ==
    \E id \in RoomIds(building) :
        /\ rooms[id].priority_level = 5
        /\ SweepCount(id) = 2 /\ Cardinality(SweepingTeams(id)) = 2
        /\ room_is_fully_swept(rooms[id])

\* C10: mark_checked called with a team equal to swept_by_team sets
\* needs_resweep and clears is_swept, sweep_time and swept_by_team; called
\* with a team different from swept_by_team it leaves needs_resweep false
C10_SameTeamCheckForcesResweep ==
    [][(/\ calls'.n = calls.n + 1
        /\ calls'.op \in {"mark_checked", "check_room"}
        /\ calls'.team # None)
       => /\ calls'.team = rooms[calls.room_id].swept_by_team
                => /\ rooms'[calls.room_id].needs_resweep
                   /\ ~rooms'[calls.room_id].is_swept
                   /\ rooms'[calls.room_id].sweep_time = None
                   /\ rooms'[calls.room_id].swept_by_team = None
          /\ calls'.team # rooms[calls.room_id].swept_by_team
                => ~rooms'[calls.room_id].needs_resweep]_vars

\* a check by the sweeping team has just sent the room back for a resweep
C10_Witness ==
    /\ calls.op \in {"mark_checked", "check_room"}
    /\ calls.team # None
    /\ rooms[calls.room_id].needs_resweep
    /\ rooms[calls.room_id].checked_by_team = calls.team
    /\ rooms[calls.room_id].sweep_history # << >>

\* the step is the direct call room.mark_swept(calls'.n seconds, calls'.team)
IsMarkSweptCall == calls'.n = calls.n + 1 /\ calls'.op = "mark_swept"

\* what every mark_swept call does to the legacy and check fields
MarkSweptLegacyEffect ==
    /\ rooms'[calls.room_id].is_swept
    /\ rooms'[calls.room_id].sweep_time = IntV(calls'.n * 1000)
    /\ rooms'[calls.room_id].checked_by_team = None
    /\ ~rooms'[calls.room_id].needs_resweep

\* C11 as stated: after mark_swept(time, teamId) is_swept is true, sweep_time
\* is time, swept_by_team is teamId, the check state is cleared, and the
\* history has grown by (time, teamId) if a team was given, else is unchanged
C11_MarkSweptSetsTeam ==
    [][IsMarkSweptCall =>
          /\ MarkSweptLegacyEffect
          /\ rooms'[calls.room_id].swept_by_team = calls'.team
          /\ rooms'[calls.room_id].sweep_history =
                 IF calls'.team # None
                 THEN Append(rooms[calls.room_id].sweep_history,
                             <<calls'.n * 1000, calls'.team>>)
                 ELSE rooms[calls.room_id].sweep_history]_vars

\* C11 amended: after mark_swept(time, teamId) is_swept is true, sweep_time
\* is time and the check state is cleared; if teamId is given and truthy
\* (not null, 0 or empty) swept_by_team is teamId and the history and the
\* count have grown by exactly (time, teamId); otherwise swept_by_team keeps
\* its previous value and the history and the count are unchanged
C11_MarkSweptKeepsTeamWithoutOne ==
    [][IsMarkSweptCall =>
          /\ MarkSweptLegacyEffect
          /\ Truthy(calls'.team) =>
                /\ rooms'[calls.room_id].swept_by_team = calls'.team
                /\ rooms'[calls.room_id].sweep_history =
                       Append(rooms[calls.room_id].sweep_history,
                              <<calls'.n * 1000, calls'.team>>)
                /\ rooms'[calls.room_id].actual_sweeps_count =
                       rooms[calls.room_id].actual_sweeps_count + 1
          /\ ~Truthy(calls'.team) =>
                /\ rooms'[calls.room_id].swept_by_team =
                       rooms[calls.room_id].swept_by_team
                /\ rooms'[calls.room_id].sweep_history =
                       rooms[calls.room_id].sweep_history
                /\ rooms'[calls.room_id].actual_sweeps_count =
                       rooms[calls.room_id].actual_sweeps_count]_vars

\* a sweep without a team has just left the earlier sweeper's team in place
C11_Witness ==
    /\ calls.op = "mark_swept" /\ calls.team = None
    /\ rooms[calls.room_id].is_swept
    /\ rooms[calls.room_id].sweep_time = IntV(calls.n * 1000)
    /\ rooms[calls.room_id].swept_by_team # None
    /\ Len(rooms[calls.room_id].sweep_history) = 1

\* the sweep and check state of a room
SweepState(room) ==
    [is_swept |-> room.is_swept, is_checked |-> room.is_checked,
     sweep_time |-> room.sweep_time, swept_by_team |-> room.swept_by_team,
     checked_by_team |-> room.checked_by_team, needs_resweep |-> room.needs_resweep,
     actual_sweeps_count |-> room.actual_sweeps_count,
     sweep_history |-> room.sweep_history]

\* the last direct call was building.reset_sweep_status()
JustReset == calls.op = "reset_sweep_status"

\* C12 as stated: after reset_sweep_status every room's sweep and check state
\* is that of a fresh room built with the same constructor arguments, also
\* for rooms constructed with is_swept=True or is_checked=True
C12_ResetEqualsFresh ==
    JustReset =>
        \A id \in RoomIds(building) :
            SweepState(rooms[id]) = SweepState(Room(building.args[id]))

\* C12 amended: after reset_sweep_status every room's sweep and check state
\* is that of a fresh room built with the same arguments except that
\* is_swept and is_checked are false whatever the constructor was given; so
\* it is the fresh state exactly for rooms constructed with both false
C12_ResetEqualsFreshUnswept ==
    JustReset =>
        \A id \in RoomIds(building) :
            /\ SweepState(rooms[id]) =
                   [SweepState(Room(building.args[id])) EXCEPT !.is_swept = FALSE,
                                                              !.is_checked = FALSE]
            /\ (~building.args[id].is_swept /\ ~building.args[id].is_checked)
                   => SweepState(rooms[id]) = SweepState(Room(building.args[id]))
            /\ rooms[id] = [Room(building.args[id]) EXCEPT !.is_swept = FALSE,
                                                           !.is_checked = FALSE]

\* a reset after a sweep and a check of a room constructed with is_swept=True
C12_Witness ==
    /\ JustReset /\ calls.n = 3
    /\ building.args[calls.room_id].is_swept
    /\ \E i \in 1..Len(responders) : responders[i].rooms_swept # << >>
    /\ \E i \in 1..Len(responders) : responders[i].rooms_checked # << >>
    /\ ~rooms[calls.room_id].is_swept
    /\ rooms[calls.room_id].sweep_history = << >>

\* the second run of a rerun has returned
RerunReturned == Returned /\ calls.n = 1

AddPathWithMissingRoom ==
    /\ calls'.n = calls.n + 1
    /\ calls'.op = "add_path"
    /\ {calls'.room_id, calls'.room2_id} \ RoomIds(building) # {}

\* every end of every edge of the graph is a room of the building
EdgeEndsAreRooms ==
    \A e \in building.edges : e[1] \in RoomIds(building) /\ e[2] \in RoomIds(building)

\* C14: add_path with an endpoint that was not added raises an error naming
\* a missing endpoint and leaves graph and rooms as they were; every end of
\* every edge is always an added room
C14_AddPathRejectsMissingRoom ==
    /\ [][AddPathWithMissingRoom =>
              /\ calls'.error # None
              /\ calls'.error.raised = "ValueError"
              /\ calls'.error.room_id \in {calls'.room_id, calls'.room2_id} \ RoomIds(building)
              /\ building' = building
              /\ rooms' = rooms]_vars
    /\ []EdgeEndsAreRooms

\* a rejected add_path on a building that already has rooms and an edge, the
\* first endpoint being a room and the second not
C14_Witness ==
    /\ calls.op = "add_path"
    /\ calls.error # None
    /\ calls.room_id \in RoomIds(building)
    /\ calls.error.room_id = calls.room2_id
    /\ building.edges # {}

\* the scheduler is between the entry of run_simulation and its return
InRun == pc \notin {"setup", "ready", "done", "api", "build"}

\* what responder i's own travel, sweep and check in this step take
OwnDurations(i) ==
    LET r == responders[i]
        n == responders'[i]
        checked == n.rooms_checked
    IN calculate_travel_time(r, n.total_distance_traveled - r.total_distance_traveled)
       + (n.total_sweep_time - r.total_sweep_time)
       + (IF Len(checked) > Len(r.rooms_checked)
          THEN Mul(calculate_sweep_duration(rooms[checked[Len(checked)]], r.expertise,
                                            r.emergency_context), 100)
          ELSE 0)

\* C15: the completion_time returned is the largest final clock of the
\* responders rounded to 2 decimals (0 without responders), and during the
\* run a responder's clock advances only in its own step and by exactly the
\* durations of its own travel, sweep and check
C15_CompletionIsMaxClock ==
    /\ [](Returned =>
            /\ Len(responders) = 0 => results.completion_time = 0
            /\ Len(responders) > 0 =>
                  \E i \in 1..Len(responders) :
                      /\ results.completion_time = Round2(responders[i].current_time)
                      /\ \A j \in 1..Len(responders) :
                             responders[j].current_time <= responders[i].current_time)
    /\ [][InRun =>
            \A i \in 1..Len(responders) :
                /\ responders'[i].current_time = responders[i].current_time + OwnDurations(i)
                /\ responders'[i].current_time # responders[i].current_time =>
                       \/ pc = "sweep" /\ loc.idx = i
                       \/ pc = "check" /\ Len(responders'[i].rooms_checked)
                                               > Len(responders[i].rooms_checked)]_vars

\* a returned run of two responders whose clocks differ, the later one off
\* the grid of hundredths, having travelled, swept and checked
C15_Witness ==
    /\ Returned
    /\ Len(responders) >= 2
    /\ \E i \in 1..Len(responders) :
          /\ results.completion_time = Round2(responders[i].current_time)
          /\ results.completion_time # responders[i].current_time
          /\ responders[i].total_distance_traveled > 0
          /\ responders[i].total_sweep_time > 0
          /\ \E j \in 1..Len(responders) :
                 responders[j].current_time < responders[i].current_time
    /\ \E k \in 1..Len(events) : events[k][3] = "CHECKED"

\* the effective priority a room was constructed with
ConstructedPriority(id) ==
    IF building.args[id].priority_override # None
    THEN building.args[id].priority_override.n
    ELSE ROOM_PRIORITY_LEVELS(building.args[id].room_type)

\* C16: get_required_sweeps depends on the effective priority only, gives 3
\* for priority 5, 2 for priority 4 and 1 for priority 3 or lower, and the
\* required_sweeps_count of a room stays what it was at construction
C16_RequiredSweepsByPriority ==
    /\ \A id \in RoomIds(building) :
          /\ \A room_type \in PriorityRoomTypes : \A priority_override \in PriorityOverrides :
                 EffectivePriority(room_type, priority_override) = ConstructedPriority(id)
                     => get_required_sweeps(room_type, priority_override)
                            = rooms[id].required_sweeps_count
          /\ ConstructedPriority(id) = 5 => rooms[id].required_sweeps_count = 3
          /\ ConstructedPriority(id) = 4 => rooms[id].required_sweeps_count = 2
          /\ ConstructedPriority(id) <= 3 => rooms[id].required_sweeps_count = 1
          /\ rooms[id].required_sweeps_count
                 = get_required_sweeps(building.args[id].room_type,
                                       building.args[id].priority_override)

\* an exit overridden to priority 5 that was swept, checked or reset by
\* MaxCalls calls, the last one a reset
C16_Witness ==
    /\ building.name = "Single"
    /\ building.args["Room1"].room_type = "EXIT"
    /\ building.args["Room1"].priority_override = IntV(5)
    /\ rooms["Room1"].required_sweeps_count = 3
    /\ calls.n = MaxCalls
    /\ calls.op = "reset_sweep_status"

\* the rooms joined to the rooms of S by at most k further edges
RECURSIVE Component(_, _, _)
Component(b, S, k) ==
    IF k = 0 THEN S
    ELSE Component(b, S \cup {e[2] : e \in {f \in b.edges : f[1] \in S}}
                       \cup {e[1] : e \in {f \in b.edges : f[2] \in S}}, k - 1)

\* C17: the shortest path from a room to itself is that room alone at
\* distance 0, and between rooms of different connected components it is the
\* empty path at infinite distance
C17_ShortestPathEdgeCases ==
    \A a \in RoomIds(building) :
        /\ get_shortest_path(building, a, a) = [path |-> <<a>>, distance |-> 0]
        /\ \A x \in RoomIds(building) \ Component(building, {a}, Len(building.order)) :
               get_shortest_path(building, a, x) = [path |-> << >>, distance |-> Inf]

\* a returned run in a building with a room in another component: a
\* responder that swept a room is left with an unswept room it has no path to
C17_Witness ==
    /\ Returned
    /\ ~results.fully_swept
    /\ \E i \in 1..Len(responders) :
          /\ responders[i].current_room_id # None
          /\ Len(responders[i].rooms_swept) > 0
          /\ \E x \in RoomIds(building) :
                 /\ x \notin Component(building, {responders[i].current_room_id.s},
                                       Len(building.order))
                 /\ ~room_is_fully_swept(rooms[x])

\* the second, more severe fire scenario has returned
SevereReturned == Returned /\ calls.n = 1 /\ calls.op = "FIRE"

\* the FIRE context of the first scenario
FirstFire == EmergencyContext("FIRE", calls.team.n, FALSE, 0)

\* C18 as stated: with a larger severity argument the sweep difficulty of a
\* FIRE is strictly larger and the completion_time is not smaller
C18_SeverityStrictlyHarder ==
    SevereReturned =>
        /\ get_sweep_difficulty_multiplier(building.emergency)
               > get_sweep_difficulty_multiplier(FirstFire)
        /\ results.completion_time >= calls.prev_time

\* C18: with a larger severity argument the sweep difficulty of a FIRE is
\* not smaller, it is strictly larger exactly when the severities clamped to
\* 0.1..3.0 differ, and the completion_time is not smaller
C18_SeverityHarderWithinClamp ==
    SevereReturned =>
        /\ get_sweep_difficulty_multiplier(building.emergency)
               >= get_sweep_difficulty_multiplier(FirstFire)
        /\ (get_sweep_difficulty_multiplier(building.emergency)
                > get_sweep_difficulty_multiplier(FirstFire))
               <=> (building.emergency.severity > FirstFire.severity)
        /\ results.completion_time >= calls.prev_time

\* a second run under a fire of severity 3.0 after one of severity 0.1, with
\* rooms swept and checked, that took longer than the first
C18_Witness ==
    /\ SevereReturned
    /\ calls.team.n = 100
    /\ building.emergency.severity = 3000
    /\ results.completion_time > calls.prev_time
    /\ \E k \in 1..Len(events) : events[k][3] = "SWEPT"
    /\ \E k \in 1..Len(events) : events[k][3] = "CHECKED"

\* the rooms routing offers to responder i: not fully swept and not yet
\* swept by its own team
Eligible(i) ==
    {id \in RoomIds(building) :
        /\ ~room_is_fully_swept(rooms[id])
        /\ ~was_swept_by_team(rooms[id], team_id_str(responders[i]))}

\* the scheduler is about to route responder i
AboutToRoute(i) ==
    /\ InSweepLoop
    /\ loc.idx = i
    /\ has_unswept_rooms(building, rooms)
    /\ responders[i].current_room_id # None

\* distance d1 is not larger than distance d2, Inf being the largest
NotFarther(d1, d2) == d2 < 0 \/ (d1 >= 0 /\ d1 <= d2)

\* C19: under NEAREST_FIRST the room get_next_room returns is an eligible
\* room of the highest priority_level among the eligible rooms, and no
\* eligible room of that priority is nearer to the responder
C19_NearestFirstPrefersPriority ==
    \A i \in 1..Len(responders) :
        (AboutToRoute(i) /\ responders[i].strategy = "NEAREST_FIRST"
             /\ Eligible(i) # {}) =>
            LET next == get_next_room(building, rooms, responders[i])
                cur == responders[i].current_room_id.s
            IN /\ next \in Eligible(i)
               /\ \A id \in Eligible(i) :
                      /\ rooms[id].priority_level <= rooms[next].priority_level
                      /\ rooms[id].priority_level = rooms[next].priority_level =>
                             NotFarther(Dist(building, cur, next), Dist(building, cur, id))

\* the scheduler is about to route a NEAREST_FIRST responder to a room while
\* an eligible room of higher priority is at a finite distance
C19_Witness ==
    \E i \in 1..Len(responders) :
        /\ AboutToRoute(i)
        /\ responders[i].strategy = "NEAREST_FIRST"
        /\ \E id \in Eligible(i) :
              LET next == get_next_room(building, rooms, responders[i])
              IN /\ next \in Eligible(i)
                 /\ rooms[id].priority_level > rooms[next].priority_level
                 /\ Dist(building, responders[i].current_room_id.s, id) >= 0

\* events k1 and k2 are two SWEPT events of one room
TwoSweepsOfOneRoom(k1, k2) ==
    /\ k1 < k2
    /\ events[k1][3] = "SWEPT"
    /\ events[k2][3] = "SWEPT"
    /\ events[k1][4] = events[k2][4]

\* C20: the SWEPT events of a room come from responders of pairwise
\* different teams, a responder without a team being a team of its own
C20_NoTeamSweepsTwice ==
    \A k1 \in 1..Len(events) : \A k2 \in 1..Len(events) :
        TwoSweepsOfOneRoom(k1, k2) =>
            TeamOf(responders[ResponderNamed(events[k1][2])])
                # TeamOf(responders[ResponderNamed(events[k2][2])])

\* a returned run in which a room was swept twice, two responders share a
\* team and one has none
C20_Witness ==
    /\ Returned
    /\ \E k1 \in 1..Len(events) : \E k2 \in 1..Len(events) : TwoSweepsOfOneRoom(k1, k2)
    /\ \E i \in 1..Len(responders) : \E j \in 1..Len(responders) :
          i # j /\ Truthy(responders[i].team_id)
              /\ responders[i].team_id = responders[j].team_id
    /\ \E i \in 1..Len(responders) : ~Truthy(responders[i].team_id)

(***************************************************************************)
(* C21: the sweep phase leaves fully swept rooms alone.                    *)
(***************************************************************************)
\* the events a step appends to the log
NewEvents == (Len(events) + 1)..Len(events')

\* the room's count has reached its required count
CountReached(id) == rooms[id].actual_sweeps_count >= rooms[id].required_sweeps_count

\* C21: at the moment of every SWEPT event the room's actual_sweeps_count was
\* below its required_sweeps_count, and a step taken when every room is fully
\* swept logs no ARRIVE and no SWEPT event
C21_NoSweepOfFullySweptRoom ==
    [][\A k \in NewEvents :
          /\ events'[k][3] = "SWEPT" => ~CountReached(events'[k][4])
          /\ (\A id \in RoomIds(building) : CountReached(id))
                 => events'[k][3] \notin {"ARRIVE", "SWEPT"}]_vars

\* a run that swept every room to its required count and went on to log a
\* check after the last sweep
C21_Witness ==
    /\ InRun
    /\ \A id \in RoomIds(building) : CountReached(id)
    /\ \E k \in 1..Len(events) : events[k][3] = "SWEPT"
    /\ Len(events) > 0 /\ events[Len(events)][3] = "CHECKED"

(***************************************************************************)
(* C22: a swept room the check phase did not serve is retried.             *)
(***************************************************************************)
\* the run stopped on an idle iteration, before the iteration cap
StoppedBeforeCap == Returned /\ results.iterations < loc.max_iterations

\* some available responder has a team id that differs from the room's
\* swept_by_team
OtherTeamAvailable(id) ==
    \E i \in 1..Len(responders) :
        /\ Truthy(responders[i].team_id)
        /\ responders[i].is_available
        /\ responders[i].team_id # rooms[id].swept_by_team

\* C22: when a run stops before the iteration cap, every room with is_swept
\* true for which an available responder of a team other than swept_by_team
\* exists has been checked (checked_by_team is not null), also when more than
\* ChecksPerIteration rooms were awaiting a check
C22_UncheckedRoomsAreRetried ==
    StoppedBeforeCap =>
        \A id \in RoomIds(building) :
            rooms[id].is_swept /\ OtherTeamAvailable(id) => rooms[id].checked_by_team # None

\* rooms swept before the first check of the run was logged
SweptBeforeFirstCheck ==
    {events[k][4] : k \in {j \in 1..Len(events) :
        /\ events[j][3] = "SWEPT"
        /\ \A i \in 1..j : events[i][3] # "CHECKED"}}

\* a run that had more rooms awaiting their check than one iteration serves,
\* and stopped before the cap with all of them checked
C22_Witness ==
    /\ StoppedBeforeCap
    /\ Cardinality(SweptBeforeFirstCheck) > ChecksPerIteration
    /\ \A id \in SweptBeforeFirstCheck :
          rooms[id].is_swept /\ OtherTeamAvailable(id) /\ rooms[id].checked_by_team # None

(***************************************************************************)
(* C24: the shape of the event log.                                        *)
(***************************************************************************)
EventKinds == {"START", "ARRIVE", "SWEPT", "CHECKED", "RESWEEP-NEEDED", "RESWEEP"}

\* event k comes right after an event of kind `kind` of the same responder
\* for the same room
RightAfter(k, kind) ==
    /\ k > 1
    /\ events[k - 1][3] = kind
    /\ events[k - 1][2] = events[k][2]
    /\ events[k - 1][4] = events[k][4]

\* the kinds of the log and what precedes a SWEPT and a RESWEEP-NEEDED event
LogWellFormed ==
    \A k \in 1..Len(events) :
        /\ events[k][3] \in EventKinds
        /\ events[k][3] = "SWEPT" => RightAfter(k, "ARRIVE")
        /\ events[k][3] = "RESWEEP-NEEDED" => RightAfter(k, "CHECKED")

\* a step of assign_starting_positions or run_simulation keeps the events
\* logged so far, in place; SweepSimulation.reset starts an empty log
LogOnlyGrows ==
    \/ pc = "done" /\ pc' = "setup" /\ events' = << >>
    \/ /\ Len(events') >= Len(events)
       /\ SubSeq(events', 1, Len(events)) = events

\* C24: the event log is append-only, its kinds are START, ARRIVE, SWEPT,
\* CHECKED, RESWEEP-NEEDED and RESWEEP, every SWEPT event comes right after an
\* ARRIVE event of the same responder for the same room, and every
\* RESWEEP-NEEDED event right after a CHECKED event of the same responder for
\* the same room
C24_EventLogShape == []LogWellFormed /\ [][LogOnlyGrows]_vars

\* a log with a START, a SWEPT after its ARRIVE, and a CHECKED event
C24_Witness ==
    /\ InRun
    /\ \E k \in 1..Len(events) : events[k][3] = "SWEPT" /\ RightAfter(k, "ARRIVE")
    /\ \E k \in 1..Len(events) : events[k][3] = "CHECKED"
    /\ \E k \in 1..Len(events) : events[k][3] = "START"

(***************************************************************************)
(* C25: a scheduler action changes the state of the acting responder only. *)
(***************************************************************************)
\* the running state of a responder that the scheduler's actions advance
RunningState(r) ==
    <<r.current_time, r.total_distance_traveled, r.total_sweep_time, r.current_room_id,
      r.rooms_swept, r.rooms_checked>>

\* the responders whose running state a step changes
Changed == {i \in 1..Len(responders) : RunningState(responders'[i]) # RunningState(responders[i])}

\* C25: a single scheduler action (travel, sweep, check or resweep) changes
\* current_time, total_distance_traveled, total_sweep_time, current_room_id,
\* rooms_swept and rooms_checked of at most one responder, the one the events
\* logged by the action name; every other responder keeps all six
C25_OtherRespondersUnchanged ==
    [][InRun =>
          /\ Len(responders') = Len(responders)
          /\ Cardinality(Changed) <= 1
          /\ \A i \in Changed : \E k \in NewEvents : events'[k][2] = responders[i].name]_vars

\* a responder has travelled and swept while another one, placed as well,
\* still has the clock, distance and lists it started with
C25_Witness ==
    /\ InRun
    /\ \E i \in 1..Len(responders) : \E j \in 1..Len(responders) :
          /\ responders[i].current_time > 0
          /\ responders[i].total_distance_traveled > 0
          /\ responders[i].rooms_swept # << >>
          /\ responders[j].current_room_id # None
          /\ responders[j].current_time = 0
          /\ responders[j].rooms_swept = << >>

(***************************************************************************)
(* C26: the count of a room against the sweeps logged for it.              *)
(***************************************************************************)
\* C26: at every point of a run, each room's actual_sweeps_count equals the
\* number of SWEPT and RESWEEP events logged so far for that room, whether or
\* not the sweeping responders have a team id
C26_CountEqualsSweepEvents ==
    InRun => \A id \in RoomIds(building) : rooms[id].actual_sweeps_count = SweepCount(id)

\* a room for which one SWEPT event is logged, by a responder with a team id
C26_Witness ==
    /\ InRun
    /\ \E id \in RoomIds(building) : \E k \in 1..Len(events) :
          /\ SweepCount(id) = 1
          /\ IsSweepOf(k, id)
          /\ Truthy(responders[ResponderNamed(events[k][2])].team_id)

(***************************************************************************)
(* C27: the re-sweep phase never has work.                                 *)
(***************************************************************************)
\* nothing is queued for a re-sweep, counted or logged
NoResweep ==
    /\ resweep_queue = << >>
    /\ loc.resweep_count = 0
    /\ results.resweep_count = 0
    /\ \A id \in RoomIds(building) : ~rooms[id].needs_resweep
    /\ \A k \in 1..Len(events) : events[k][3] \notin {"RESWEEP-NEEDED", "RESWEEP"}

\* the checker of every check a step logs has a team id that is not the
\* swept_by_team the room had when the check began
CheckerDiffers ==
    \A k \in NewEvents :
        events'[k][3] = "CHECKED" =>
            /\ Truthy(responders[ResponderNamed(events'[k][2])].team_id)
            /\ responders[ResponderNamed(events'[k][2])].team_id
                   # rooms[events'[k][4]].swept_by_team

ReturnedStats == get_building_stats(building, rooms)

\* C28, as claimed: in the result of every run fully_swept is true if and only
\* if building_stats reports unswept_rooms = 0 (completion = 1)
C28_FullySweptIffNoUnswept ==
    Returned => (results.fully_swept <=> results.unswept_rooms = 0)

\* C28, amended: in the result of every run fully_swept = true implies
\* unswept_rooms = 0 and completion = 1; unswept_rooms = 0 holds exactly when
\* every room has at least one recorded sweep, so the two agree when no room
\* requires more than one sweep
C28_FullySweptImpliesNoUnswept ==
    Returned =>
        /\ results.unswept_rooms = ReturnedStats.unswept_rooms
        /\ results.unswept_rooms = 0 <=> ReturnedStats.completion = 1000
        /\ results.fully_swept => results.unswept_rooms = 0
        /\ results.unswept_rooms = 0
               <=> \A id \in RoomIds(building) : rooms[id].actual_sweeps_count >= 1
        /\ (\A id \in RoomIds(building) : rooms[id].required_sweeps_count = 1)
               => (results.fully_swept <=> results.unswept_rooms = 0)

\* a result with no unswept room that is not fully swept: a room requiring
\* more sweeps than it got is counted as swept
C28_Witness ==
    /\ Returned
    /\ results.unswept_rooms = 0
    /\ ~results.fully_swept
    /\ \E id \in RoomIds(building) :
          /\ rooms[id].is_swept
          /\ rooms[id].actual_sweeps_count < rooms[id].required_sweeps_count

(***************************************************************************)
(* C29: responders that were given no starting position.                   *)
(***************************************************************************)
\* responder i was not in the assignments of assign_starting_positions
Unplaced(i) == \A k \in 1..Len(events) : ~(events[k][3] = "START" /\ events[k][2] = responders[i].name)

\* no ARRIVE or SWEPT event is logged for responder i and it has covered no
\* distance
NeverMoved(i) ==
    /\ \A k \in 1..Len(events) :
          events[k][2] = responders[i].name => events[k][3] \notin {"ARRIVE", "SWEPT"}
    /\ responders[i].total_distance_traveled = 0

\* C29, as claimed: a responder that was never given a starting position never
\* travels or sweeps during a run
C29_UnplacedNeverMoves ==
    \A i \in 1..Len(responders) : InRun /\ Unplaced(i) => NeverMoved(i)

\* C29, amended: a responder without a starting position neither travels nor
\* sweeps while its current_room_id is null; its current_room_id is null until
\* the check phase picks it as checker; a responder without a team id is never
\* picked, so it never travels or sweeps
C29_UnplacedIdleUntilChecker ==
    \A i \in 1..Len(responders) :
        InRun /\ Unplaced(i) =>
            /\ responders[i].current_room_id = None <=> responders[i].rooms_checked = << >>
            /\ responders[i].current_room_id = None => NeverMoved(i)
            /\ ~Truthy(responders[i].team_id) => responders[i].current_room_id = None

\* a run in which the others have swept every room while a team-less
\* responder without a starting position stayed where it was, nowhere
C29_Witness ==
    /\ InRun
    /\ building_is_fully_swept(building, rooms)
    /\ \E k \in 1..Len(events) : events[k][3] = "CHECKED"
    /\ \E i \in 1..Len(responders) :
          /\ Unplaced(i)
          /\ ~Truthy(responders[i].team_id)
          /\ NeverMoved(i)
          /\ responders[i].current_room_id = None

(***************************************************************************)
(* C30: completion is monotone until the sweep status is reset.            *)
(***************************************************************************)
\* the step is building.reset_sweep_status(), called directly or by
\* SweepSimulation.reset
IsResetStep ==
    \/ pc = "done" /\ pc' = "setup"
    \/ calls'.n = calls.n + 1 /\ calls'.op = "reset_sweep_status"

\* the step is a check: room.mark_checked or responder.check_room called
\* directly, or a check of the scheduler's phase 2
IsCheckingStep ==
    \/ calls'.n = calls.n + 1 /\ calls'.op \in {"mark_checked", "check_room"}
    \/ \E k \in NewEvents : events'[k][3] = "CHECKED"

\* C30: mark_checked, with the same or a different team, never changes
\* sweep_history or actual_sweeps_count, and a room whose is_fully_swept() is
\* true keeps it true under every later sweep, check and resweep until
\* reset_sweep_status is called
C30_CompletionIsMonotone ==
    [][~IsResetStep =>
          \A id \in RoomIds(building) :
              /\ IsCheckingStep =>
                    /\ rooms'[id].sweep_history = rooms[id].sweep_history
                    /\ rooms'[id].actual_sweeps_count = rooms[id].actual_sweeps_count
              /\ rooms'[id].actual_sweeps_count >= rooms[id].actual_sweeps_count
              /\ CountReached(id) => CountReached(id)']_vars

\* a fully swept room that the team of its last sweep has checked since: the
\* check asks for a re-sweep and the room is still fully swept
C30_Witness ==
    /\ calls.op \in {"mark_checked", "check_room"}
    /\ rooms[calls.room_id].needs_resweep
    /\ ~rooms[calls.room_id].is_swept
    /\ CountReached(calls.room_id)

====
